---- MODULE Spec2Model ----
(***************************************************************************)
(* HSGexplorer ("explore-it"): the content-based recommendation engine     *)
(* (recommender.py) and the session handling of the Streamlit page         *)
(* (app.py, config.py).                                                    *)
(*                                                                         *)
(* Conventions.  An Optional value is None (the empty sequence) or        *)
(* Some(x) (the one-element sequence); an ID cell of the table is         *)
(* Some(number) or None for a missing/unparsable ID (NaN).  Python lists  *)
(* are sequences; row positions are 1-based here (position i is the       *)
(* pandas/numpy index i-1).  A feature matrix is a sequence of rows of    *)
(* integers.  A profile vector, the mean of integer rows, is the exact    *)
(* fraction [num |-> numerators, den |-> common divisor] in lowest terms; *)
(* floating point rounding is not represented.                            *)
(***************************************************************************)
EXTENDS Integers, Sequences, FiniteSets, TLC

VARIABLES
  df,             \* the activity table (df_activities / the df argument)
  default_lists,  \* the two list objects inside config.DEFAULT_SESSION_STATE
  own_lists,      \* per session: the list objects created by its last reset
  session_state,  \* per session: st.session_state (absent before the first run)
  call            \* the engine call under study: its arguments and its result

vars == <<df, default_lists, own_lists, session_state, call>>

None == <<>>
Some(x) == <<x>>

-----------------------------------------------------------------------------
(* Bounds of the model *)

\* rows of the table handed to the engine functions
NumRows == 3
\* longest liked_ids list handed to calculate_user_profile
MaxLiked == 3
\* largest number n of recommendations asked from the engine
MaxN == 3

-----------------------------------------------------------------------------
(* Generic list helpers *)

Range(s) == {s[i] : i \in DOMAIN s}

Take(s, k) == IF k <= 0 THEN <<>> ELSE SubSeq(s, 1, IF k < Len(s) THEN k ELSE Len(s))

\* Python's "x in list" / list.count
Count(s, x) == Cardinality({i \in DOMAIN s : s[i] = x})

\* every order a list can be brought into (random.shuffle)
RECURSIVE Shuffles(_)
Shuffles(s) ==
  IF s = <<>> THEN {<<>>}
  ELSE UNION {{<<s[i]>> \o rest :
                 rest \in Shuffles(SubSeq(s, 1, i - 1) \o SubSeq(s, i + 1, Len(s)))}
              : i \in DOMAIN s}

RECURSIVE SumOver(_, _)
SumOver(S, f) ==
  IF S = {} THEN 0
  ELSE LET x == CHOOSE y \in S : TRUE IN f[x] + SumOver(S \ {x}, f)

Dot(u, v) == SumOver(DOMAIN u, [i \in DOMAIN u |-> u[i] * v[i]])

Abs(x) == IF x < 0 THEN -x ELSE x

Min(a, b) == IF a < b THEN a ELSE b

RECURSIVE Gcd(_, _)
Gcd(a, b) == IF b = 0 THEN Abs(a) ELSE Gcd(b, a % b)

RECURSIVE GcdAll(_, _)
GcdAll(v, g) == IF v = <<>> THEN g ELSE GcdAll(Tail(v), Gcd(Head(v), g))

-----------------------------------------------------------------------------
(* The activity table *)

\* one row of the table; only the columns the engine reads
Activity(id, art, zielgruppe, preis, io) ==
  [ID |-> id, Art |-> art, Zielgruppe |-> zielgruppe, Preis_Ca |-> preis,
   Indoor_Outdoor |-> io, Beschreibung |-> <<>>]

\* pd.to_numeric(df[COL_ID], errors='coerce').fillna(-1).astype(int), per value
to_int_id(cell) == IF cell = None THEN -1 ELSE cell[1]

\* the table after df[COL_ID] has been overwritten with the converted column
normalize_ids(table) ==
  [i \in DOMAIN table |-> [table[i] EXCEPT !.ID = Some(to_int_id(@))]]

NumMatrixRows(m) == Len(m)
NumMatrixCols(m) == IF m = <<>> THEN 0 ELSE Len(m[1])

-----------------------------------------------------------------------------
(* recommender.py: calculate_user_profile *)

\* (mutant) a partial vector: only the first column is averaged
column_mean_partial(features_matrix, indices) ==
  LET sums == [c \in 1..1 |-> SumOver(indices, [i \in indices |-> features_matrix[i][c]])]
      cnt  == Cardinality(indices)
      g    == GcdAll(sums, cnt)
  IN Some([num |-> [c \in 1..1 |-> sums[c] \div g], den |-> cnt \div g])

\* np.mean(liked_vectors, axis=0): the per-column mean of the gathered rows,
\* kept as an exact fraction in lowest terms
column_mean(features_matrix, indices) ==
  LET cols == 1..NumMatrixCols(features_matrix)
      sums == [c \in cols |-> SumOver(indices, [i \in indices |-> features_matrix[i][c]])]
      cnt  == Cardinality(indices)
      g    == GcdAll(sums, cnt)
  IN Some([num |-> [c \in cols |-> sums[c] \div g], den |-> cnt \div g])

\* (mutant) only the first liked ID is looked up
liked_indices_first_only(liked_ids, table) ==
  {i \in DOMAIN table : to_int_id(table[i].ID) = liked_ids[1]}

\* df.index[df[COL_ID].isin(liked_ids)]: the rows whose converted ID is liked
liked_indices(liked_ids, table) ==
  {i \in DOMAIN table : to_int_id(table[i].ID) \in Range(liked_ids)}

\* [idx for idx in liked_indices if idx < features_matrix.shape[0]]
valid_indices(indices, features_matrix) ==
  {i \in indices : i <= NumMatrixRows(features_matrix)}

\* the early returns that leave before df[COL_ID] is overwritten
profile_returns_early(liked_ids, features_matrix, table) ==
  \/ features_matrix = None
  \/ NumMatrixCols(features_matrix[1]) = 0
  \/ table = <<>>
  \/ liked_ids = <<>>

\* the value calculate_user_profile returns; features_matrix is Optional
calculate_user_profile(liked_ids, disliked_ids, features_matrix, table) ==
  IF profile_returns_early(liked_ids, features_matrix, table) THEN None
  ELSE LET li == liked_indices(liked_ids, table)
           vi == valid_indices(li, features_matrix[1])
       IN IF li = {} THEN None
          ELSE IF vi = {} THEN None
          ELSE column_mean(features_matrix[1], vi)

\* the df argument as calculate_user_profile leaves it
df_after_calculate_user_profile(liked_ids, features_matrix, table) ==
  IF profile_returns_early(liked_ids, features_matrix, table) THEN table
  ELSE normalize_ids(table)

-----------------------------------------------------------------------------
(* recommender.py: get_profile_recommendations *)

\* cosine_similarity(profile, row a) > cosine_similarity(profile, row b), decided
\* exactly: a score is dot/(|profile| |row|), and 0 for an all-zero row
score_greater(p, a, b) ==
  LET da == Dot(p, a)
      db == Dot(p, b)
      na == IF Dot(a, a) = 0 THEN 1 ELSE Dot(a, a)
      nb == IF Dot(b, b) = 0 THEN 1 ELSE Dot(b, b)
  IN IF da >= 0 /\ db >= 0 THEN da * da * nb > db * db * na
     ELSE IF da < 0 /\ db < 0 THEN da * da * nb < db * db * na
     ELSE da > db

\* (mutant) an unstable sort: a row goes in front of the rows it ties with
RECURSIVE sort_insert_unstable(_, _, _, _)
sort_insert_unstable(sorted, i, p, m) ==
  IF sorted = <<>> THEN <<i>>
  ELSE IF ~score_greater(p, m[Head(sorted)], m[i]) THEN <<i>> \o sorted
  ELSE <<Head(sorted)>> \o sort_insert_unstable(Tail(sorted), i, p, m)

\* list.sort(key=score, reverse=True) is stable: a row goes behind every row
\* already placed whose score is at least its own
RECURSIVE sort_insert(_, _, _, _)
sort_insert(sorted, i, p, m) ==
  IF sorted = <<>> THEN <<i>>
  ELSE IF score_greater(p, m[i], m[Head(sorted)]) THEN <<i>> \o sorted
  ELSE <<Head(sorted)>> \o sort_insert(Tail(sorted), i, p, m)

\* (mutant) the sort left out: the rows stay in table order
sorted_prefix_unsorted(k, p, m) == [i \in 1..k |-> i]

RECURSIVE sorted_prefix(_, _, _)
sorted_prefix(k, p, m) ==
  IF k = 0 THEN <<>> ELSE sort_insert(sorted_prefix(k - 1, p, m), k, p, m)

\* sim_scores_with_indices after the sort: the row positions, best score first
sim_scores_sorted(p, m) == sorted_prefix(NumMatrixRows(m), p, m)

\* (mutant) the rated_ids test forgotten
is_recommendable_unfiltered(activity_id, rated_ids) == activity_id # -1

\* activity_id is not None and activity_id != -1 and activity_id not in rated_ids
\* (the converted column holds integers only, so the None test never decides)
is_recommendable(activity_id, rated_ids) ==
  activity_id # -1 /\ activity_id \notin rated_ids

\* (mutant) the loop stops one ID short of the wanted number
RECURSIVE collect_profile_based_short(_, _, _, _, _)
collect_profile_based_short(order, acc, table, rated_ids, wanted) ==
  IF order = <<>> THEN acc
  ELSE IF Len(acc) >= wanted - 1 THEN acc
  ELSE IF Head(order) > Len(table) THEN acc
  ELSE LET activity_id == to_int_id(table[Head(order)].ID)
       IN collect_profile_based_short(Tail(order),
            IF activity_id # -1 /\ activity_id \notin rated_ids
              THEN Append(acc, activity_id) ELSE acc,
            table, rated_ids, wanted)

\* the loop over the sorted rows; df.iloc[index] raises for a position outside
\* the table, which ends the loop with the IDs collected so far
RECURSIVE collect_profile_based(_, _, _, _, _)
collect_profile_based(order, acc, table, rated_ids, wanted) ==
  IF order = <<>> THEN acc
  ELSE IF Len(acc) >= wanted THEN acc
  ELSE IF Head(order) > Len(table) THEN acc
  ELSE LET activity_id == to_int_id(table[Head(order)].ID)
       IN collect_profile_based(Tail(order),
            IF is_recommendable(activity_id, rated_ids)
              THEN Append(acc, activity_id) ELSE acc,
            table, rated_ids, wanted)

\* df[COL_ID].dropna().unique().tolist(): each ID once, in order of first row
RECURSIVE unique_ids(_)
unique_ids(table) ==
  IF table = <<>> THEN <<>>
  ELSE LET front == unique_ids(SubSeq(table, 1, Len(table) - 1))
           last  == to_int_id(table[Len(table)].ID)
       IN IF last \in Range(front) THEN front ELSE Append(front, last)

\* (mutant) the test against the profile-based picks forgotten
exploration_candidates_overlapping(table, rated_ids, profile_based_ids) ==
  SelectSeq(unique_ids(table), LAMBDA id : id # -1 /\ id \notin rated_ids)

\* (mutant) a single exploration candidate, however many IDs qualify
exploration_candidates_first_only(table, rated_ids, profile_based_ids) ==
  Take(SelectSeq(unique_ids(table),
                 LAMBDA id : id # -1 /\ id \notin rated_ids
                             /\ id \notin Range(profile_based_ids)), 1)

\* candidate_exploration_ids, before the shuffle
exploration_candidates(table, rated_ids, profile_based_ids) ==
  SelectSeq(unique_ids(table),
            LAMBDA id : id # -1 /\ id \notin rated_ids
                        /\ id \notin Range(profile_based_ids))

\* the early returns that leave before df[COL_ID] is overwritten: a missing
\* profile or matrix, an empty matrix or table, and cosine_similarity raising
\* for a profile that has not the matrix's number of columns
recommend_returns_early(user_profile, features_matrix, table) ==
  \/ user_profile = None
  \/ features_matrix = None
  \/ NumMatrixRows(features_matrix[1]) = 0
  \/ NumMatrixCols(features_matrix[1]) = 0
  \/ table = <<>>
  \/ Len(user_profile[1].num) # NumMatrixCols(features_matrix[1])

\* (mutant) the final slice forgotten
truncate_missing(final_recommendations, n) == final_recommendations

\* return final_recommendations[:n]
truncate(final_recommendations, n) == Take(final_recommendations, n)

\* (mutant) a fixed-rate policy in place of the count: the ranker fills all n
\* slots and a random candidate may take the place of its last pick
get_profile_recommendations_fixed_rate(user_profile, features_matrix, table, rated_ids, n, k) ==
  IF recommend_returns_early(user_profile, features_matrix, table)
  THEN {[profile_based_ids |-> <<>>, exploration_ids |-> <<>>, result |-> <<>>,
         df |-> table]}
  ELSE
    LET t     == normalize_ids(table)
        order == sim_scores_sorted(user_profile[1].num, features_matrix[1])
        pb    == collect_profile_based(order, <<>>, t, rated_ids, n)
        cands == exploration_candidates(t, rated_ids, pb)
        kept  == {[pb |-> pb, e |-> <<>>]}
                 \cup (IF pb # <<>> /\ Len(pb) = n
                       THEN {[pb |-> SubSeq(pb, 1, Len(pb) - 1), e |-> <<cands[c]>>] :
                               c \in DOMAIN cands}
                       ELSE {})
    IN UNION {{[profile_based_ids |-> x.pb, exploration_ids |-> x.e,
                result |-> truncate(f, n), df |-> t] : f \in Shuffles(x.pb \o x.e)}
              : x \in kept}

\* (mutant) the guard on profile and matrix left out: the slots are filled by
\* exploration alone
get_profile_recommendations_unguarded(user_profile, features_matrix, table, rated_ids, n, k) ==
  LET t     == normalize_ids(table)
      cands == exploration_candidates(t, rated_ids, <<>>)
  IN {[profile_based_ids |-> <<>>, exploration_ids |-> Take(c, n),
       result |-> Take(c, n), df |-> t] : c \in Shuffles(cands)}

\* One run of get_profile_recommendations for every outcome of the two
\* random.shuffle calls: the locals profile_based_ids and exploration_ids, the
\* returned list and the df argument as the call leaves it.  user_profile and
\* features_matrix are Optional, k is num_exploration_suggestions.
get_profile_recommendations(user_profile, features_matrix, table, rated_ids, n, k) ==
  IF recommend_returns_early(user_profile, features_matrix, table)
  THEN {[profile_based_ids |-> <<>>, exploration_ids |-> <<>>, result |-> <<>>,
         df |-> table]}
  ELSE
    LET t      == normalize_ids(table)
        order  == sim_scores_sorted(user_profile[1].num, features_matrix[1])
        pb     == collect_profile_based(order, <<>>, t, rated_ids, n - k)
        needed == n - Len(pb)
        cands  == exploration_candidates(t, rated_ids, pb)
        expl   == IF needed > 0
                    THEN {Take(c, needed) : c \in Shuffles(cands)}
                    ELSE {<<>>}
    IN UNION {{[profile_based_ids |-> pb, exploration_ids |-> e,
                result |-> truncate(f, n), df |-> t] : f \in Shuffles(pb \o e)}
              : e \in expl}

-----------------------------------------------------------------------------
(* The engine called on its own: get_profile_recommendations *)

\* the ID the table generator gives row i
RowId(i) == 10 + i

\* feature rows the matrices are made of: three different scores against
\* RecProfile (0 for the zero row), equal rows tie
FeatureRows == {<<0, 0>>, <<1, 0>>, <<1, 1>>}
RecProfile == Some([num |-> <<2, 1>>, den |-> 1])

\* ID columns: all IDs valid and different; one ID missing (NaN); the last
\* row repeating the first row's ID; both; and, with all IDs valid, one row
\* less and one row more than the matrices have
RecIdColumns ==
  LET valid(len) == [i \in 1..len |-> Some(RowId(i))]
      repeated   == [valid(NumRows) EXCEPT ![NumRows] = Some(RowId(1))]
  IN {valid(NumRows), repeated, [repeated EXCEPT ![2] = None],
      valid(NumRows - 1), valid(NumRows + 1)}
     \cup {[valid(NumRows) EXCEPT ![j] = None] : j \in 1..NumRows}

RecTables ==
  {[i \in DOMAIN c |-> Activity(c[i], Some("Kultur"), <<"">>, Some(0), Some("Indoor"))] : c \in RecIdColumns}

\* every matrix over FeatureRows for the table with NumRows valid, different
\* IDs; for the other tables the matrices without a zero row
RecInputs ==
  LET regular == [i \in 1..NumRows |-> Activity(Some(RowId(i)), Some("Kultur"), <<"">>, Some(0), Some("Indoor"))]
  IN {<<regular, Some(m)>> : m \in [1..NumRows -> FeatureRows]}
     \cup {<<t, Some(m)>> : t \in RecTables \ {regular},
                            m \in [1..NumRows -> FeatureRows \ {<<0, 0>>}]}

\* rated_ids: nothing, the first row's ID, the last row's ID, or both
RecRatedSets == SUBSET {RowId(1), RowId(NumRows)}

\* a table whose valid IDs are all different
UniqueIds(table) ==
  \A i, j \in DOMAIN table :
    (i # j /\ to_int_id(table[i].ID) # -1) => table[i].ID # table[j].ID

NoSessions == <<>>

InitRec ==
  /\ default_lists = [liked_ids |-> <<>>, disliked_ids |-> <<>>]
  /\ own_lists = NoSessions
  /\ session_state = NoSessions
  /\ \E n \in 0..MaxN, k \in -1..(MaxN + 1), in \in RecInputs, r \in RecRatedSets :
       /\ k <= n + 1
       /\ df = in[1]
       /\ call = [op |-> "get_profile_recommendations", user_profile |-> RecProfile,
                  features_matrix |-> in[2], rated_ids |-> r, n |-> n, k |-> k,
                  table |-> df, returned |-> FALSE, profile_based_ids |-> <<>>,
                  exploration_ids |-> <<>>, result |-> <<>>]

\* the call runs and returns one of its possible lists
Recommend ==
  /\ call.op = "get_profile_recommendations"
  /\ ~call.returned
  /\ \E run \in get_profile_recommendations(call.user_profile, call.features_matrix,
                                            df, call.rated_ids, call.n, call.k) :
       /\ call' = [call EXCEPT !.returned = TRUE,
                               !.profile_based_ids = run.profile_based_ids,
                               !.exploration_ids = run.exploration_ids,
                               !.result = run.result]
       /\ df' = run.df
  /\ UNCHANGED <<default_lists, own_lists, session_state>>

NextRec == Recommend

SpecRec == InitRec /\ [][NextRec]_vars

-----------------------------------------------------------------------------
(* The engine called on its own: calculate_user_profile *)

\* IDs to like: two of rows every matrix covers, one of the row only the
\* longest table has (outside the matrix), one of no table
LikedIdPool == {RowId(1), RowId(2), RowId(NumRows + 1), RowId(NumRows + 2)}

LikedLists == UNION {[1..len -> LikedIdPool] : len \in 0..MaxLiked}

Reverse(s) == [i \in DOMAIN s |-> s[Len(s) + 1 - i]]

InitProfile ==
  /\ default_lists = [liked_ids |-> <<>>, disliked_ids |-> <<>>]
  /\ own_lists = NoSessions
  /\ session_state = NoSessions
  /\ \E in \in RecInputs, liked \in LikedLists :
       /\ df = in[1]
       /\ call = [op |-> "calculate_user_profile", liked_ids |-> liked,
                  features_matrix |-> in[2], table |-> df, returned |-> FALSE,
                  result |-> None, result_reversed |-> None, result_repeated |-> None]

\* the call runs; it is repeated with the list reversed and with the list's
\* first ID appended once more
CalculateProfile ==
  /\ call.op = "calculate_user_profile"
  /\ ~call.returned
  /\ call' = [call EXCEPT
       !.returned = TRUE,
       !.result = calculate_user_profile(call.liked_ids, <<>>, call.features_matrix, df),
       !.result_reversed =
          calculate_user_profile(Reverse(call.liked_ids), <<>>, call.features_matrix, df),
       !.result_repeated =
          calculate_user_profile(
            IF call.liked_ids = <<>> THEN <<>>
            ELSE Append(call.liked_ids, call.liked_ids[1]),
            <<>>, call.features_matrix, df)]
  /\ df' = df_after_calculate_user_profile(call.liked_ids, call.features_matrix, df)
  /\ UNCHANGED <<default_lists, own_lists, session_state>>

NextProfile == CalculateProfile

SpecProfile == InitProfile /\ [][NextProfile]_vars

-----------------------------------------------------------------------------
(* Claims about get_profile_recommendations (SpecRec) *)

NoRepeats(s) == \A i, j \in DOMAIN s : s[i] = s[j] => i = j

\* the valid IDs of the table the call was given
CallValidIds == {to_int_id(call.table[i].ID) : i \in DOMAIN call.table} \ {-1}

\* C1: no ID of the returned list is in rated_ids, and neither is any
\* profile-based or exploration entry the call collected.
C1_NoRatedIdReturned ==
  call.returned =>
    /\ Range(call.result) \cap call.rated_ids = {}
    /\ Range(call.profile_based_ids) \cap call.rated_ids = {}
    /\ Range(call.exploration_ids) \cap call.rated_ids = {}

\* a call with rated IDs of the table that returned profile-based and
\* exploration entries
C1_Witness ==
  /\ call.returned
  /\ call.rated_ids \cap CallValidIds # {}
  /\ call.profile_based_ids # <<>>
  /\ call.exploration_ids # <<>>
  /\ Range(call.result) = Range(call.profile_based_ids \o call.exploration_ids)

\* C2: the returned list has at most n entries, for every n and every
\* exploration count (negative and larger than n included).
C2_AtMostN == call.returned => Len(call.result) <= call.n

\* a negative exploration count made the ranker collect more than n IDs, and
\* the final slice cut the list to n
C2_Witness ==
  /\ call.returned
  /\ call.k < 0
  /\ Len(call.profile_based_ids) > call.n
  /\ Len(call.result) = call.n
  /\ call.n > 0

\* rows of the call's table that may be recommended
EligibleRows ==
  {i \in DOMAIN call.table :
     /\ to_int_id(call.table[i].ID) # -1
     /\ to_int_id(call.table[i].ID) \notin call.rated_ids}

\* row i ranks before row j: higher score, or the same score and an earlier row
RanksBefore(i, j) ==
  LET p == call.user_profile[1].num
      m == call.features_matrix[1]
  IN \/ score_greater(p, m[i], m[j])
     \/ (~score_greater(p, m[j], m[i]) /\ i < j)

\* position of an eligible row among the eligible rows
RankOf(i) == 1 + Cardinality({j \in EligibleRows : RanksBefore(j, i)})

\* C8: with 0 <= k <= n and one matrix row per table row, the profile-based
\* part is the first n-k eligible activities by descending score, ties by
\* ascending row (all of them when there are fewer), and each is returned.
C8_ProfileBasedPart ==
  (/\ call.returned
   /\ 0 <= call.k /\ call.k <= call.n
   /\ Len(call.table) = Len(call.features_matrix[1]))
  => LET wanted == Min(call.n - call.k, Cardinality(EligibleRows))
     IN /\ Len(call.profile_based_ids) = wanted
        /\ \A x \in 1..wanted :
             \E i \in EligibleRows :
               /\ RankOf(i) = x
               /\ call.profile_based_ids[x] = to_int_id(call.table[i].ID)
        /\ Range(call.profile_based_ids) \subseteq Range(call.result)

\* a selected row ties with a row that was left out, and exploration slots
\* were asked for
C8_Witness ==
  /\ call.returned
  /\ 0 < call.k /\ call.k < call.n
  /\ Len(call.table) = Len(call.features_matrix[1])
  /\ call.rated_ids \cap CallValidIds # {}
  /\ Len(call.profile_based_ids) = call.n - call.k
  /\ \E i, j \in EligibleRows :
       /\ i < j
       /\ call.features_matrix[1][i] = call.features_matrix[1][j]
       /\ RankOf(i) = call.n - call.k
       /\ RankOf(j) = call.n - call.k + 1

\* IDs exploration may draw from
ExplorationPool ==
  (CallValidIds \ call.rated_ids) \ Range(call.profile_based_ids)

\* C10: for a table with unique IDs every returned entry is a valid ID of the
\* table and none occurs twice; exploration IDs come only from the IDs neither
\* rated nor picked by the ranker, and fill the free slots as far as they last.
C10_ValidDistinctIds ==
  (call.returned /\ UniqueIds(call.table))
  => /\ Range(call.result) \subseteq CallValidIds
     /\ NoRepeats(call.result)
     /\ Range(call.exploration_ids) \subseteq ExplorationPool
     /\ NoRepeats(call.exploration_ids)
     /\ LET free == call.n - Len(call.profile_based_ids)
        IN Len(call.exploration_ids) =
             IF free > 0 THEN Min(free, Cardinality(ExplorationPool)) ELSE 0

\* fewer exploration candidates than free slots, next to profile-based picks
C10_Witness ==
  /\ call.returned
  /\ UniqueIds(call.table)
  /\ call.profile_based_ids # <<>>
  /\ call.exploration_ids # <<>>
  /\ Cardinality(ExplorationPool) < call.n - Len(call.profile_based_ids)
  /\ Range(call.exploration_ids) = ExplorationPool
  /\ \E i \in DOMAIN call.table : call.table[i].ID = None

-----------------------------------------------------------------------------
(* Claims about calculate_user_profile (SpecProfile) *)

\* rows whose ID is liked and whose position lies inside the matrix
LikedRowsInMatrix ==
  {i \in DOMAIN call.table :
     /\ to_int_id(call.table[i].ID) \in Range(call.liked_ids)
     /\ i <= Len(call.features_matrix[1])}

\* C7: the profile is, per column, the arithmetic mean of the feature rows of
\* exactly the liked activities inside the matrix (no profile when there is
\* none); liked IDs outside table or matrix are ignored, and neither order nor
\* multiplicity of liked_ids changes the result.
C7_ProfileIsMeanOfLikedRows ==
  call.returned =>
    LET rows == LikedRowsInMatrix
        m    == call.features_matrix[1]
    IN /\ IF rows = {} THEN call.result = None
          ELSE /\ call.result # None
               /\ call.result[1].den > 0
               /\ \A c \in 1..NumMatrixCols(m) :
                    call.result[1].num[c] * Cardinality(rows) =
                      call.result[1].den * SumOver(rows, [i \in rows |-> m[i][c]])
       /\ call.result_reversed = call.result
       /\ call.result_repeated = call.result

\* a list naming two rows with different features and the ID of a row that
\* lies outside the matrix gave the mean of the two rows
C7_Witness ==
  /\ call.returned
  /\ call.result # None
  /\ Cardinality(LikedRowsInMatrix) = 2
  /\ \E i, j \in LikedRowsInMatrix : call.features_matrix[1][i] # call.features_matrix[1][j]
  /\ call.result[1].den = 2
  /\ \E i \in DOMAIN call.table :
       /\ to_int_id(call.table[i].ID) \in Range(call.liked_ids)
       /\ i > Len(call.features_matrix[1])
  /\ call.liked_ids # Reverse(call.liked_ids)


-----------------------------------------------------------------------------
(* recommender.py: preprocess_features *)
(* A Zielgruppe cell is the list of its comma-separated parts, each already  *)
(* stripped ("" for an empty part); a price cell is Some(whole francs) or    *)
(* None.  A description cell is the list of its words; a table   *)
(* without description text makes the text block fail on an empty           *)
(* vocabulary, and the block is skipped.  MinMaxScaler divides              *)
(* by the price range; to stay in the integers every entry of the matrix is  *)
(* multiplied by that range, which changes no cosine similarity.             *)

\* the sorted order scikit-learn gives the classes and categories
ZielgruppeOrder == <<"Familie", "Kinder", "Paare", "Studenten">>
ArtOrder == <<"Action", "Kultur", "Natur", "Sport", "Unbekannt">>
IndoorOutdoorOrder == <<"Indoor", "Mixed", "Outdoor", "Unbekannt">>

\* (mutant) str.strip() leaving the text as it is
strip_nothing(text) == text

\* str.strip() on the pieces split(',') leaves of the tables' target groups
strip(text) ==
  CASE text = " "         -> ""
    [] text = " Kinder"   -> "Kinder"
    [] text = "Familie "  -> "Familie"
    [] text = " Familie " -> "Familie"
    [] OTHER              -> text

\* [tag.strip() for tag in x.split(',') if tag.strip()]
zielgruppe_tags(cell) ==
  IF cell = None THEN <<>>
  ELSE SelectSeq([k \in DOMAIN cell |-> strip(cell[k])], LAMBDA tag : tag # "")

\* the classes / categories fitted on a column: the sorted values that occur
fitted_classes(order, present) == SelectSeq(order, LAMBDA c : c \in present)

\* one 0/1 entry per fitted class, scale being the common factor of the matrix
indicator_row(classes, member, scale) ==
  [c \in 1..Len(classes) |-> IF classes[c] \in member THEN scale ELSE 0]

\* df[COL_PREIS].fillna(0)
price_filled(cell) == IF cell = None THEN 0 ELSE cell[1]

\* MinMaxScaler's divisor: max - min, and 1 for a constant column
price_range(table) ==
  LET prices == {price_filled(table[i].Preis_Ca) : i \in DOMAIN table}
      lo == CHOOSE p \in prices : \A q \in prices : p <= q
      hi == CHOOSE p \in prices : \A q \in prices : p >= q
  IN [min |-> lo, range |-> IF hi = lo THEN 1 ELSE hi - lo]

\* (mutant) a missing category counted under the empty name
category_filled_blank(cell) == IF cell = None THEN "" ELSE cell[1]

\* df[col].fillna('Unbekannt')
category_filled(cell) == IF cell = None THEN "Unbekannt" ELSE cell[1]

\* a price cell holding float('inf'), which pd.to_numeric reads from "inf"
Infinite == <<1, 0>>

\* MinMaxScaler raises on an infinite value, which fails the whole third block
ct_block_fails(table) == \E i \in DOMAIN table : table[i].Preis_Ca = Infinite

\* the common factor of the matrix entries: the price range where prices are scaled
matrix_scale(table) == IF ct_block_fails(table) THEN 1 ELSE price_range(table).range

\* the sorted order of the terms (words and pairs of neighbouring words) the
\* descriptions of the tables can hold
TermOrder == <<(<<"museum">>), (<<"museum", "museum">>), (<<"museum", "see">>),
               (<<"see">>), (<<"see", "museum">>), (<<"see", "see">>)>>

\* TfidfVectorizer's tokenizer on one word of a description: lower case, and
\* no token for a word of a single character (Optional)
word_token(word) ==
  CASE word = "a"      -> None
    [] word = "See"    -> Some("see")
    [] word = "Museum" -> Some("museum")
    [] OTHER           -> Some(word)

\* the tokens of a description cell; fillna('') leaves a missing one empty
RECURSIVE tokens(_)
tokens(cell) ==
  IF cell = None THEN <<>>
  ELSE LET t == word_token(Head(cell))
       IN (IF t = None THEN <<>> ELSE <<t[1]>>) \o tokens(Tail(cell))

\* ngram_range=(1, 2): the words and the pairs of neighbouring words
ngrams(doc) ==
  [k \in 1..Len(doc) |-> <<doc[k]>>] \o [k \in 1..(Len(doc) - 1) |-> <<doc[k], doc[k + 1]>>]

\* block 1 (Optional): one column per term of the fitted vocabulary; fitting
\* raises on an empty vocabulary, which skips the block.  An entry holds the
\* number of times the term occurs in the row's description (times the common
\* factor) in place of the tf-idf weight; both are zero for the same entries.
\* max_features=500 is never reached by the vocabularies of TermOrder.
text_block(table) ==
  LET rows == DOMAIN table
      docs == [i \in rows |-> ngrams(tokens(table[i].Beschreibung))]
      vocabulary == fitted_classes(TermOrder, UNION {Range(docs[i]) : i \in rows})
  IN IF vocabulary = <<>> THEN None
     ELSE Some([i \in rows |->
                  [c \in 1..Len(vocabulary) |->
                     Count(docs[i], vocabulary[c]) * matrix_scale(table)]])

\* block 2 (Optional): the Zielgruppe indicators, built when some row has a tag
zielgruppe_block(table) ==
  LET rows == DOMAIN table
      tags == [i \in rows |-> Range(zielgruppe_tags(table[i].Zielgruppe))]
      mlb  == fitted_classes(ZielgruppeOrder, UNION {tags[i] : i \in rows})
  IN IF mlb = <<>> THEN None
     ELSE Some([i \in rows |-> indicator_row(mlb, tags[i], matrix_scale(table))])

\* block 3 (Optional): scaled price, Art and Indoor_Outdoor one-hot
ct_block(table) ==
  IF ct_block_fails(table) THEN None
  ELSE LET rows == DOMAIN table
           pr   == price_range(table)
           arts == fitted_classes(ArtOrder, {category_filled(table[i].Art) : i \in rows})
           ios  == fitted_classes(IndoorOutdoorOrder,
                                  {category_filled(table[i].Indoor_Outdoor) : i \in rows})
       IN Some([i \in rows |->
                  <<price_filled(table[i].Preis_Ca) - pr.min>>
                  \o indicator_row(arts, {category_filled(table[i].Art)}, pr.range)
                  \o indicator_row(ios, {category_filled(table[i].Indoor_Outdoor)}, pr.range)])

\* (mutant) np.hstack repeating the first row of every block
RECURSIVE hstack_first_row(_, _)
hstack_first_row(blocks, i) ==
  IF blocks = <<>> THEN <<>>
  ELSE Head(blocks)[1][1] \o hstack_first_row(Tail(blocks), i)

\* (mutant) np.hstack taking the blocks in the opposite order
RECURSIVE hstack_reversed(_, _)
hstack_reversed(blocks, i) ==
  IF blocks = <<>> THEN <<>>
  ELSE hstack_reversed(Tail(blocks), i) \o Head(blocks)[1][i]

\* np.hstack over the blocks that were built, row by row
RECURSIVE hstack(_, _)
hstack(blocks, i) ==
  IF blocks = <<>> THEN <<>> ELSE Head(blocks)[1][i] \o hstack(Tail(blocks), i)

\* the features the function returns (Optional): the blocks that could be
\* built, side by side in the order text, Zielgruppe, price/Art/Indoor_Outdoor
preprocess_features(table) ==
  IF table = <<>> THEN None
  ELSE LET final_features_list ==
             SelectSeq(<<text_block(table), zielgruppe_block(table), ct_block(table)>>,
                       LAMBDA b : b # None)
       IN IF final_features_list = <<>> THEN None
          ELSE Some([i \in DOMAIN table |-> hstack(final_features_list, i)])

-----------------------------------------------------------------------------
(* recommender.py: the preference summary behind the profile label *)

\* liked_activities[COL_ART].fillna('Unbekannt').value_counts(): per Art of
\* COL in df.columns; the columns of the table are the fields of its rows
has_column(table, col) == table # <<>> /\ col \in DOMAIN table[1]

\* df[df[COL_ID].isin(valid_liked_ids)]: the rows whose ID is in the liked
\* list; a missing ID is in no list
liked_activities(liked_ids, table) ==
  IF has_column(table, "ID")
  THEN {i \in DOMAIN table : table[i].ID # None /\ table[i].ID[1] \in Range(liked_ids)}
  ELSE {}

\* the liked rows its count, as a list of [art, count] ordered by descending
\* count, equal counts in the order of first appearance in the table
\* (Optional: None without a liked row)
calculate_preference_scores(liked_ids, table) ==
  LET liked_rows == liked_activities(liked_ids, table)
      art(i)     == category_filled(table[i].Art)
      count(a)   == Cardinality({i \in liked_rows : art(i) = a})
      first(a)   == CHOOSE i \in liked_rows : art(i) = a /\ \A j \in liked_rows : art(j) = a => i <= j
      arts       == {art(i) : i \in liked_rows}
      before(a, b) == count(a) > count(b) \/ (count(a) = count(b) /\ first(a) < first(b))
      rank(a)    == 1 + Cardinality({b \in arts : before(b, a)})
  IN IF liked_ids = <<>> \/ table = <<>> \/ ~has_column(table, "ID")
        \/ ~has_column(table, "Art") \/ liked_rows = {}
     THEN None
     ELSE Some([r \in 1..Cardinality(arts) |->
                  LET a == CHOOSE x \in arts : rank(x) = r IN [art |-> a, count |-> count(a)]])

\* Series.sort_values(ascending=False) on a series of entries with a count;
\* entries of equal count keep their order
insert_by_count(e, sorted) ==
  LET k == Cardinality({i \in DOMAIN sorted : sorted[i].count >= e.count})
  IN SubSeq(sorted, 1, k) \o <<e>> \o SubSeq(sorted, k + 1, Len(sorted))

RECURSIVE sort_values(_)
sort_values(series) ==
  IF series = <<>> THEN <<>>
  ELSE insert_by_count(series[Len(series)],
                       sort_values(SubSeq(series, 1, Len(series) - 1)))

\* (mutant) the first category is "clearly ahead" as soon as it has more likes
clearly_ahead_any_lead(score1, score2) == score1 > score2

\* score1 > score2 * 1.5
clearly_ahead(score1, score2) == 2 * score1 > 3 * score2

\* the label text, kept as its parts: <<"Fan", art>> is "<art>-Fan",
\* <<"FanInterest", a, b>> is "<a>-Fan (Interesse: <b>)", <<"Typ", a, b>> is
\* "<a> & <b> Typ", and the three special names are themselves
generate_profile_label(preference_scores) ==
  IF preference_scores = None \/ preference_scores[1] = <<>> THEN None
  ELSE LET top == Take(sort_values(preference_scores[1]), 2)
       IN IF Len(top) = 1 THEN Some(<<"Fan", top[1].art>>)
          ELSE LET pair == {top[1].art, top[2].art}
               IN IF pair = {"Sport", "Action"} THEN Some(<<"Sport & Action Typ">>)
                  ELSE IF pair = {"Natur", "Wandern"} THEN Some(<<"Naturfreund">>)
                  ELSE IF pair = {"Genuss", "Shopping"} THEN Some(<<"Genuss & Shopping Typ">>)
                  ELSE IF clearly_ahead(top[1].count, top[2].count)
                       THEN Some(<<"FanInterest", top[1].art, top[2].art>>)
                  ELSE Some(<<"Typ", top[1].art, top[2].art>>)

\* the rows of a set as a list in table order
rows_in_order(table, rows) == SelectSeq([i \in DOMAIN table |-> i], LAMBDA i : i \in rows)

\* all_tags: the tags of the liked rows, row after row
RECURSIVE all_tags(_, _)
all_tags(table, row_list) ==
  IF row_list = <<>> THEN <<>>
  ELSE zielgruppe_tags(table[Head(row_list)].Zielgruppe) \o all_tags(table, Tail(row_list))

\* pd.Series(Counter(all_tags)): one [tag, count] entry per tag, in the order
\* of the tags' first occurrence
tag_counts(tags) ==
  LET firsts == SelectSeq([i \in DOMAIN tags |-> i],
                          LAMBDA i : \A j \in 1..(i - 1) : tags[j] # tags[i])
  IN [k \in DOMAIN firsts |->
        [tag |-> tags[firsts[k]], count |-> Count(tags, tags[firsts[k]])]]

\* calculate_top_target_groups(liked_ids, df, top_n) (Optional: None without a
\* liked row or without a tag)
calculate_top_target_groups(liked_ids, table, top_n) ==
  LET liked_rows == liked_activities(liked_ids, table)
  IN IF liked_ids = <<>> \/ table = <<>> \/ ~has_column(table, "ID")
        \/ ~has_column(table, "Zielgruppe") \/ liked_rows = {}
     THEN None
     ELSE LET tags == all_tags(table, rows_in_order(table, liked_rows))
          IN IF tags = <<>> THEN None
             ELSE Some(Take(sort_values(tag_counts(tags)), top_n))

\* (mutant) the filter keeps the free activities
price_above_zero_or_free(cell) == cell = Infinite \/ cell[1] >= 0

\* prices_numeric > 0 on a price cell
price_above_zero(cell) == cell = Infinite \/ cell[1] > 0

\* (mutant) the list is returned even when it is empty
list_or_none_keeping_empty(valid_prices) == Some(valid_prices)

\* valid_prices if valid_prices else None
list_or_none(valid_prices) == IF valid_prices = <<>> THEN None ELSE Some(valid_prices)

\* get_liked_prices(liked_ids, df, include_free): the price cells of the liked
\* rows in table order, a cell without a number (None) left out (Optional:
\* None when no price is left)
get_liked_prices(liked_ids, table, include_free) ==
  LET liked_rows == liked_activities(liked_ids, table)
  IN IF liked_ids = <<>> \/ table = <<>> \/ ~has_column(table, "ID")
        \/ ~has_column(table, "Preis_Ca") \/ liked_rows = {}
     THEN None
     ELSE LET prices_numeric == [k \in DOMAIN rows_in_order(table, liked_rows) |->
                                   table[rows_in_order(table, liked_rows)[k]].Preis_Ca]
              valid_prices ==
                IF include_free
                THEN SelectSeq(prices_numeric, LAMBDA c : c # None)
                ELSE SelectSeq(prices_numeric,
                               LAMBDA c : c # None /\ price_above_zero(c))
          IN list_or_none(valid_prices)

-----------------------------------------------------------------------------
(* app.py: the page, its session state and the rating handler *)
(* st.session_state keeps references: the liked and disliked entries of a    *)
(* session name the list object they point to, "default" for the list       *)
(* inside config.DEFAULT_SESSION_STATE (one object per process) and "own"   *)
(* for the list the session's last reset created.                           *)

MIN_LIKES_FOR_PROFILE == 5
target_total_suggestions_for_card == 5
initial_suggestions == 5
explicit_suggestions == 10

\* browser sessions the one process serves
NumSessions == 2
\* activities in the loaded table
NumActs == 2

ArtCycle == <<"Kultur", "Sport", "Natur">>
ZielgruppeCycle == <<(<<"Familie">>), (<<"Studenten", "">>), (<<"Familie", "Kinder">>), (<<"">>)>>

\* a table as load_data returns it: different whole-number IDs, no missing
\* price, no missing Indoor_Outdoor
LoadedTable(rows) ==
  [i \in 1..rows |->
     Activity(Some(RowId(i)), Some(ArtCycle[((i - 1) % 3) + 1]),
              ZielgruppeCycle[((i - 1) % 4) + 1], Some(i % 3),
              Some(IF i % 2 = 1 THEN "Indoor" ELSE "Outdoor"))]

EmptyLists == [liked_ids |-> <<>>, disliked_ids |-> <<>>]

\* config.DEFAULT_SESSION_STATE, the entries the personalisation uses
DEFAULT_SESSION_STATE ==
  [liked_ids |-> "default", disliked_ids |-> "default",
   recommendations_to_show_ids |-> <<>>, features_matrix |-> None,
   user_profile |-> None, user_profile_label |-> None,
   explicit_recommendations_list |-> None]

Started(s) == session_state[s] # None
State(s) == session_state[s][1]

\* the list objects a session's entries point to
Lists(s) ==
  [liked_ids    |-> IF State(s).liked_ids = "default"
                    THEN default_lists.liked_ids ELSE own_lists[s].liked_ids,
   disliked_ids |-> IF State(s).disliked_ids = "default"
                    THEN default_lists.disliked_ids ELSE own_lists[s].disliked_ids]

\* list.remove(x): the first occurrence goes
Remove(list, x) ==
  LET at == CHOOSE i \in DOMAIN list : list[i] = x /\ \A j \in 1..(i - 1) : list[j] # x
  IN SubSeq(list, 1, at - 1) \o SubSeq(list, at + 1, Len(list))

\* (mutant) a like or dislike that leaves the other list alone
rate_lists_keeping_other(lists, id, rating) ==
  IF rating = 1
  THEN [lists EXCEPT !.liked_ids = IF id \in Range(@) THEN @ ELSE Append(@, id)]
  ELSE IF rating = -1
  THEN [lists EXCEPT !.disliked_ids = IF id \in Range(@) THEN @ ELSE Append(@, id)]
  ELSE lists

\* step 1 of the handler: the two lists after the rating
rate_lists(lists, id, rating) ==
  IF rating = 1
  THEN [liked_ids    |-> IF id \in Range(lists.liked_ids) THEN lists.liked_ids
                         ELSE Append(lists.liked_ids, id),
        disliked_ids |-> IF id \in Range(lists.disliked_ids)
                         THEN Remove(lists.disliked_ids, id) ELSE lists.disliked_ids]
  ELSE IF rating = -1
  THEN [liked_ids    |-> IF id \in Range(lists.liked_ids)
                         THEN Remove(lists.liked_ids, id) ELSE lists.liked_ids,
        disliked_ids |-> IF id \in Range(lists.disliked_ids) THEN lists.disliked_ids
                         ELSE Append(lists.disliked_ids, id)]
  ELSE lists

\* (mutant) two likes still get the two exploration slots of one like
num_expl_suggestions_late(num_likes) ==
  IF num_likes = 0 THEN Min(3, target_total_suggestions_for_card)
  ELSE IF num_likes = 1 THEN Min(2, target_total_suggestions_for_card)
  ELSE IF num_likes = 2 THEN Min(2, target_total_suggestions_for_card)
  ELSE 0

\* the adaptive number of exploration suggestions
num_expl_suggestions(num_likes) ==
  IF num_likes = 0 THEN Min(3, target_total_suggestions_for_card)
  ELSE IF num_likes = 1 THEN Min(2, target_total_suggestions_for_card)
  ELSE IF num_likes = 2 THEN Min(1, target_total_suggestions_for_card)
  ELSE 0

\* (mutant) only None is rejected, the sentinel -1 is rated
handler_rejects_none_only(clicked_activity_id) == clicked_activity_id = None

\* what the handler does not touch when it returns early
handler_rejects(clicked_activity_id) ==
  clicked_activity_id = None \/ clicked_activity_id[1] = -1

\* (mutant) the label stays what the session held before the rating
handler_label_kept(st, liked_ids, table) == st.user_profile_label

\* step 3 of the handler: the label it stores, computed from the liked list
\* only when the session holds a feature matrix and the table has rows
handler_label(st, liked_ids, table) ==
  IF st.features_matrix # None /\ table # <<>>
  THEN generate_profile_label(calculate_preference_scores(liked_ids, table))
  ELSE None

\* update_recommendations(clicked_activity_id, rating) on the session entries
\* st and the list objects they point to: every outcome the shuffles allow,
\* with the arguments of its engine call
update_recommendations(st, lists, table, clicked_activity_id, rating) ==
  IF handler_rejects(clicked_activity_id)
  THEN {[accepted |-> FALSE, lists |-> lists, st |-> st, engine_called |-> FALSE,
         num_likes |-> Len(lists.liked_ids), n |-> 0, k |-> 0, num_profile_based |-> 0]}
  ELSE
    LET new       == rate_lists(lists, clicked_activity_id[1], rating)
        num_likes == Len(new.liked_ids)
    IN IF st.features_matrix # None /\ table # <<>>
       THEN LET user_profile == calculate_user_profile(new.liked_ids, new.disliked_ids,
                                                       st.features_matrix, table)
                rated_ids    == Range(new.liked_ids) \cup Range(new.disliked_ids)
                k            == num_expl_suggestions(num_likes)
                label        == handler_label(st, new.liked_ids, table)
                stored(ids)  == [st EXCEPT !.user_profile = user_profile,
                                           !.recommendations_to_show_ids = ids,
                                           !.user_profile_label = label]
            IN IF user_profile # None
               THEN {[accepted |-> TRUE, lists |-> new, st |-> stored(run.result),
                      engine_called |-> TRUE, num_likes |-> num_likes,
                      n |-> target_total_suggestions_for_card, k |-> k,
                      num_profile_based |-> Len(run.profile_based_ids)] :
                       run \in get_profile_recommendations(
                                 user_profile, st.features_matrix, table, rated_ids,
                                 target_total_suggestions_for_card, k)}
               ELSE {[accepted |-> TRUE, lists |-> new, st |-> stored(<<>>),
                      engine_called |-> FALSE, num_likes |-> num_likes, n |-> 0, k |-> 0,
                      num_profile_based |-> 0]}
       ELSE {[accepted |-> TRUE, lists |-> new,
              st |-> [st EXCEPT !.recommendations_to_show_ids = <<>>,
                                !.user_profile_label =
                                   handler_label(st, new.liked_ids, table)],
              engine_called |-> FALSE, num_likes |-> num_likes, n |-> 0, k |-> 0,
              num_profile_based |-> 0]}

\* df_activities[COL_ID].dropna().unique().tolist(), then the whole-number IDs
\* that are not rated and not -1, in table order
\* (mutant) the initial candidates are not tested against the rated IDs
valid_unrated_ids_unfiltered(table, rated_ids) ==
  LET keep(i) == /\ table[i].ID # None
                 /\ \A j \in 1..(i - 1) : table[j].ID # table[i].ID
                 /\ table[i].ID[1] # -1
      rows    == SelectSeq([i \in DOMAIN table |-> i], keep)
  IN [r \in DOMAIN rows |-> table[rows[r]].ID[1]]

valid_unrated_ids(table, rated_ids) ==
  LET keep(i) == /\ table[i].ID # None
                 /\ \A j \in 1..(i - 1) : table[j].ID # table[i].ID
                 /\ table[i].ID[1] \notin rated_ids
                 /\ table[i].ID[1] # -1
      rows    == SelectSeq([i \in DOMAIN table |-> i], keep)
  IN [r \in DOMAIN rows |-> table[rows[r]].ID[1]]

\* the page script's test before it calls preprocess_features: the session
\* holds no feature matrix
computes_matrix(st) == st.features_matrix = None

\* one run of the page script on the session entries st: the feature matrix
\* is computed when the session has none, and an empty suggestion list is
\* filled with up to five unrated activities in random order
page_run(st, lists, table) ==
  LET with_matrix == IF computes_matrix(st)
                     THEN [st EXCEPT !.features_matrix = preprocess_features(table)]
                     ELSE st
  IN IF with_matrix.recommendations_to_show_ids = <<>> /\ table # <<>>
     THEN {[with_matrix EXCEPT !.recommendations_to_show_ids = Take(c, initial_suggestions)] :
             c \in Shuffles(valid_unrated_ids(
                              table, Range(lists.liked_ids) \cup Range(lists.disliked_ids)))}
     ELSE {with_matrix}

\* the list objects after session s has left `lists` in the objects its
\* entries point to
StoreLists(s, lists) ==
  /\ default_lists' =
       [liked_ids    |-> IF State(s).liked_ids = "default"
                         THEN lists.liked_ids ELSE default_lists.liked_ids,
        disliked_ids |-> IF State(s).disliked_ids = "default"
                         THEN lists.disliked_ids ELSE default_lists.disliked_ids]
  /\ own_lists' =
       [own_lists EXCEPT ![s] =
          [liked_ids    |-> IF State(s).liked_ids = "own"
                            THEN lists.liked_ids ELSE own_lists[s].liked_ids,
           disliked_ids |-> IF State(s).disliked_ids = "own"
                            THEN lists.disliked_ids ELSE own_lists[s].disliked_ids]]

\* a browser opens the page: the entries are taken from DEFAULT_SESSION_STATE
\* and the script runs for the first time
StartSession(s) ==
  /\ ~Started(s)
  /\ \E st \in page_run(DEFAULT_SESSION_STATE, default_lists, df) :
       session_state' = [session_state EXCEPT ![s] = Some(st)]
  /\ call' = [op |-> "start_session", session |-> s, matrix_computed |-> TRUE]
  /\ UNCHANGED <<df, default_lists, own_lists>>

\* a click on the card's like (1) or dislike (-1) button: the handler runs on
\* the first suggested ID, then the script reruns
RateCard(s, rating) ==
  /\ Started(s)
  /\ df # <<>>
  /\ State(s).recommendations_to_show_ids # <<>>
  /\ LET id == State(s).recommendations_to_show_ids[1]
     IN /\ \E i \in DOMAIN df : df[i].ID = Some(id)
        /\ \E out \in update_recommendations(State(s), Lists(s), df, Some(id), rating) :
           \E st \in page_run(out.st, out.lists, df) :
             /\ session_state' = [session_state EXCEPT ![s] = Some(st)]
             /\ StoreLists(s, out.lists)
             /\ call' = [op |-> "update_recommendations", session |-> s,
                         clicked_activity_id |-> id, rating |-> rating,
                         accepted |-> out.accepted,
                         previous_rating |->
                           IF id \in Range(Lists(s).liked_ids) THEN 1
                           ELSE IF id \in Range(Lists(s).disliked_ids) THEN -1 ELSE 0,
                         engine_called |-> out.engine_called, num_likes |-> out.num_likes,
                         n |-> out.n, k |-> out.k,
                         num_profile_based |-> out.num_profile_based,
                         matrix_computed |-> computes_matrix(out.st)]
  /\ UNCHANGED df

\* (mutant) the reset also drops the feature matrix, so the rerun computes it anew
ResetPersonalisation_dropping_matrix(s) ==
  /\ Started(s)
  /\ LET cleared == [State(s) EXCEPT !.liked_ids = "own", !.disliked_ids = "own",
                                     !.user_profile = None, !.user_profile_label = None,
                                     !.recommendations_to_show_ids = <<>>,
                                     !.explicit_recommendations_list = None,
                                     !.features_matrix = None]
     IN /\ \E st \in page_run(cleared, EmptyLists, df) :
             session_state' = [session_state EXCEPT ![s] = Some(st)]
        /\ call' = [op |-> "reset", session |-> s,
                    matrix_computed |-> computes_matrix(cleared)]
  /\ own_lists' = [own_lists EXCEPT ![s] = EmptyLists]
  /\ UNCHANGED <<df, default_lists>>

\* (mutant) the reset forgets the label and the explicit list
ResetPersonalisation_partial(s) ==
  /\ Started(s)
  /\ LET cleared == [State(s) EXCEPT !.liked_ids = "own", !.disliked_ids = "own",
                                     !.user_profile = None,
                                     !.recommendations_to_show_ids = <<>>]
     IN /\ \E st \in page_run(cleared, EmptyLists, df) :
             session_state' = [session_state EXCEPT ![s] = Some(st)]
        /\ call' = [op |-> "reset", session |-> s,
                    matrix_computed |-> computes_matrix(cleared)]
  /\ own_lists' = [own_lists EXCEPT ![s] = EmptyLists]
  /\ UNCHANGED <<df, default_lists>>

\* "Personalisierung zuruecksetzen": fresh lists, nothing learnt, rerun
ResetPersonalisation(s) ==
  /\ Started(s)
  /\ LET cleared == [State(s) EXCEPT !.liked_ids = "own", !.disliked_ids = "own",
                                     !.user_profile = None, !.user_profile_label = None,
                                     !.recommendations_to_show_ids = <<>>,
                                     !.explicit_recommendations_list = None]
     IN /\ \E st \in page_run(cleared, EmptyLists, df) :
             session_state' = [session_state EXCEPT ![s] = Some(st)]
        /\ call' = [op |-> "reset", session |-> s,
                    matrix_computed |-> computes_matrix(cleared)]
  /\ own_lists' = [own_lists EXCEPT ![s] = EmptyLists]
  /\ UNCHANGED <<df, default_lists>>

\* "Zeige passende Aktivitaeten fuer mein Profil", offered from
\* MIN_LIKES_FOR_PROFILE likes on: the engine's list is kept in the session
ShowProfileRecommendations(s) ==
  /\ Started(s)
  /\ Len(Lists(s).liked_ids) >= MIN_LIKES_FOR_PROFILE
  /\ LET st == State(s)
         rated_ids == Range(Lists(s).liked_ids) \cup Range(Lists(s).disliked_ids)
     IN IF st.user_profile # None /\ st.features_matrix # None /\ df # <<>>
        THEN \E run \in get_profile_recommendations(st.user_profile, st.features_matrix,
                                                    df, rated_ids, explicit_suggestions, 0) :
             \E after \in page_run([st EXCEPT !.explicit_recommendations_list =
                                                Some(run.result)], Lists(s), df) :
               session_state' = [session_state EXCEPT ![s] = Some(after)]
        ELSE \E after \in page_run(st, Lists(s), df) :
               session_state' = [session_state EXCEPT ![s] = Some(after)]
  /\ call' = [op |-> "show_profile_recommendations", session |-> s,
              matrix_computed |-> computes_matrix(State(s))]
  /\ UNCHANGED <<df, default_lists, own_lists>>

\* "Profil-Liste ausblenden", offered while an explicit list is kept
HideProfileList(s) ==
  /\ Started(s)
  /\ State(s).explicit_recommendations_list # None
  /\ \E after \in page_run([State(s) EXCEPT !.explicit_recommendations_list = None],
                           Lists(s), df) :
       session_state' = [session_state EXCEPT ![s] = Some(after)]
  /\ call' = [op |-> "hide_profile_list", session |-> s,
              matrix_computed |-> computes_matrix(State(s))]
  /\ UNCHANGED <<df, default_lists, own_lists>>

\* one process serving NumSessions browsers over a table of NumActs rows
Init ==
  /\ df = LoadedTable(NumActs)
  /\ default_lists = EmptyLists
  /\ own_lists = [s \in 1..NumSessions |-> EmptyLists]
  /\ session_state = [s \in 1..NumSessions |-> None]
  /\ call = [op |-> "none", session |-> 0]

Next ==
  \E s \in DOMAIN session_state :
    \/ StartSession(s)
    \/ RateCard(s, 1)
    \/ RateCard(s, -1)
    \/ ResetPersonalisation(s)

Spec == Init /\ [][Next]_vars

\* one browser over a table with one activity more than the likes the
\* profile view asks for, so that the explicit list can be requested and an
\* activity is left to rate afterwards; this specification follows the
\* ratings and the explicit list, the reset is exercised in Spec
InitExplicit ==
  /\ df = LoadedTable(MIN_LIKES_FOR_PROFILE + 1)
  /\ default_lists = EmptyLists
  /\ own_lists = [s \in {1} |-> EmptyLists]
  /\ session_state = [s \in {1} |-> None]
  /\ call = [op |-> "none", session |-> 0]

NextExplicit ==
  \E s \in DOMAIN session_state :
    \/ StartSession(s)
    \/ RateCard(s, 1)
    \/ RateCard(s, -1)
    \/ ShowProfileRecommendations(s)
    \/ HideProfileList(s)

SpecExplicit == InitExplicit /\ [][NextExplicit]_vars

-----------------------------------------------------------------------------
(* Claims on the page and its sessions *)

\* C3: in every session the liked and the disliked list share no ID and
\* hold no ID twice; right after an accepted like of x, x is liked and not
\* disliked, and right after an accepted dislike of x, x is disliked and not
\* liked (also when x had been rated before, and after resets).
C3_ListsDisjointNoRepeats ==
  /\ \A s \in DOMAIN session_state :
       Started(s) =>
         /\ Range(Lists(s).liked_ids) \cap Range(Lists(s).disliked_ids) = {}
         /\ NoRepeats(Lists(s).liked_ids)
         /\ NoRepeats(Lists(s).disliked_ids)
  /\ (call.op = "update_recommendations" /\ call.accepted) =>
       LET x == call.clicked_activity_id
           liked == Range(Lists(call.session).liked_ids)
           disliked == Range(Lists(call.session).disliked_ids)
       IN /\ call.rating = 1 => (x \in liked /\ x \notin disliked)
          /\ call.rating = -1 => (x \in disliked /\ x \notin liked)

\* a like of an ID that was disliked (the card of this session still showed
\* it), which leaves two liked IDs and no disliked one
C3_Witness ==
  /\ call.op = "update_recommendations"
  /\ call.accepted
  /\ call.rating = 1
  /\ call.previous_rating = -1
  /\ Len(Lists(call.session).liked_ids) = 2
  /\ Lists(call.session).disliked_ids = <<>>

\* what a session shows of its personalisation
View(s) ==
  IF Started(s)
  THEN Some([liked_ids |-> Lists(s).liked_ids, disliked_ids |-> Lists(s).disliked_ids,
             user_profile |-> State(s).user_profile,
             recommendations_to_show_ids |-> State(s).recommendations_to_show_ids])
  ELSE None

\* C4: a session starts with empty liked and disliked lists, whatever other
\* sessions have rated before, and a rating in one session changes neither
\* the lists, nor the cached profile, nor the suggestion list of another.
C4_SessionsIsolated ==
  [][\A s \in DOMAIN session_state :
       /\ (call'.op = "start_session" /\ call'.session = s) => Lists(s)' = EmptyLists
       /\ (call'.op = "update_recommendations" /\ call'.session # s) => View(s)' = View(s)]_vars

\* C5: after an accepted rating neither the suggestion list nor the kept
\* explicit profile list of the session holds a liked or disliked ID.
C5_NoRatedIdInKeptLists ==
  (call.op = "update_recommendations" /\ call.accepted) =>
    LET s == call.session
        rated == Range(Lists(s).liked_ids) \cup Range(Lists(s).disliked_ids)
        explicit == State(s).explicit_recommendations_list
    IN /\ Range(State(s).recommendations_to_show_ids) \cap rated = {}
       /\ explicit # None => Range(explicit[1]) \cap rated = {}

\* C6: with a feature matrix and a table, the cached profile of a session is
\* None exactly when its liked list is empty, and otherwise the per-column
\* mean of the feature rows of all currently liked activities.
C6_CachedProfileIsCurrent ==
  \A s \in DOMAIN session_state :
    (Started(s) /\ State(s).features_matrix # None /\ df # <<>>) =>
      LET m     == State(s).features_matrix[1]
          p     == State(s).user_profile
          liked == {i \in DOMAIN df : to_int_id(df[i].ID) \in Range(Lists(s).liked_ids)}
      IN IF liked = {} THEN p = None
         ELSE /\ p # None
              /\ p[1].den > 0
              /\ \A c \in 1..Len(m[1]) :
                   p[1].num[c] * Cardinality(liked)
                     = p[1].den * SumOver(liked, [i \in liked |-> m[i][c]])

\* C9: when the handler calls the engine it asks for 5 suggestions, of which
\* 2 are exploration with one like, 1 with two likes and 0 with three or
\* more; the count never grows with the number of likes, never exceeds 5,
\* and the ranker collects the other slots as far as unrated activities last.
C9_ExplorationSlots ==
  /\ (call.op = "update_recommendations" /\ call.engine_called) =>
       LET s == call.session
           rated == Range(Lists(s).liked_ids) \cup Range(Lists(s).disliked_ids)
       IN /\ call.n = 5
          /\ call.num_likes = Len(Lists(s).liked_ids)
          /\ call.num_likes = 1 => call.k = 2
          /\ call.num_likes = 2 => call.k = 1
          /\ call.num_likes >= 3 => call.k = 0
          /\ call.k <= call.n
          /\ call.num_profile_based = Min(call.n - call.k, Len(df) - Cardinality(rated))
  /\ \A a, b \in 0..Len(df) :
       a <= b => /\ num_expl_suggestions(b) <= num_expl_suggestions(a)
                 /\ num_expl_suggestions(a) <= target_total_suggestions_for_card

\* the third like: no exploration slot, and three activities left to rank
C9_Witness ==
  /\ call.op = "update_recommendations"
  /\ call.engine_called
  /\ call.rating = 1
  /\ call.num_likes = 3
  /\ call.k = 0
  /\ call.num_profile_based = 3

-----------------------------------------------------------------------------
(* The engine called twice on the same inputs, exploration count 0 *)

InitRepeat ==
  /\ default_lists = [liked_ids |-> <<>>, disliked_ids |-> <<>>]
  /\ own_lists = NoSessions
  /\ session_state = NoSessions
  /\ \E n \in 0..MaxN, in \in RecInputs, r \in RecRatedSets :
       /\ df = in[1]
       /\ call = [op |-> "get_profile_recommendations", user_profile |-> RecProfile,
                  features_matrix |-> in[2], rated_ids |-> r, n |-> n, k |-> 0,
                  table |-> df, returned |-> FALSE, profile_based_ids |-> <<>>,
                  exploration_ids |-> <<>>, result |-> <<>>,
                  returned_again |-> FALSE, result_again |-> <<>>]

\* the second call: same profile, matrix, rated_ids, n and count, and the table
\* the caller handed to the first call
RecommendAgain ==
  /\ call.op = "get_profile_recommendations"
  /\ call.returned
  /\ ~call.returned_again
  /\ \E run \in get_profile_recommendations(call.user_profile, call.features_matrix,
                                            call.table, call.rated_ids, call.n, call.k) :
       call' = [call EXCEPT !.returned_again = TRUE, !.result_again = run.result]
  /\ UNCHANGED <<df, default_lists, own_lists, session_state>>

NextRepeat == Recommend \/ RecommendAgain

SpecRepeat == InitRepeat /\ [][NextRepeat]_vars

\* C11 (as claimed): two calls with identical inputs and exploration count 0
\* return the same set of IDs.
C11_SameSetOfIds ==
  call.returned_again => Range(call.result_again) = Range(call.result)

\* C11 (amended): when the matrix has one row per row of the table, two calls
\* with identical inputs and exploration count 0 return the same set of IDs
\* and lists of the same length; only the order may differ.
C11_SameSetWhenAligned ==
  (call.returned_again /\ Len(call.table) = Len(call.features_matrix[1])) =>
     /\ Range(call.result_again) = Range(call.result)
     /\ Len(call.result_again) = Len(call.result)

\* two calls on aligned inputs that returned the same IDs in different order
C11_Witness ==
  /\ call.returned_again
  /\ Len(call.table) = Len(call.features_matrix[1])
  /\ call.rated_ids \cap CallValidIds # {}
  /\ Len(call.result) >= 2
  /\ call.result_again # call.result
  /\ Range(call.result_again) = Range(call.result)

-----------------------------------------------------------------------------
(* The engine asked for one ID with the profile of one activity *)

\* the profile is the feature vector of row x of the matrix, rated_ids is
\* empty, n = 1 and num_exploration_suggestions = 0
InitScenarioB ==
  /\ default_lists = [liked_ids |-> <<>>, disliked_ids |-> <<>>]
  /\ own_lists = NoSessions
  /\ session_state = NoSessions
  /\ \E in \in RecInputs :
       \E x \in 1..Min(Len(in[1]), NumMatrixRows(in[2][1])) :
         /\ df = in[1]
         /\ call = [op |-> "get_profile_recommendations",
                    user_profile |-> Some([num |-> in[2][1][x], den |-> 1]),
                    features_matrix |-> in[2], rated_ids |-> {}, n |-> 1, k |-> 0,
                    table |-> df, x |-> x, returned |-> FALSE,
                    profile_based_ids |-> <<>>, exploration_ids |-> <<>>,
                    result |-> <<>>]

NextScenarioB == Recommend

SpecScenarioB == InitScenarioB /\ [][NextScenarioB]_vars

\* row j of the call's table has a valid ID and a score against the profile
\* that is not below the score of row x
ScoresAtLeastX(j) ==
  /\ to_int_id(call.table[j].ID) # -1
  /\ ~score_greater(call.user_profile[1].num,
                    call.features_matrix[1][call.x], call.features_matrix[1][j])

\* C12 (as claimed): with the profile equal to the feature vector of activity X,
\* rated_ids empty, n = 1 and exploration count 0 the function returns exactly
\* the list holding X's ID, for every table and every X.
C12_ReturnsX ==
  call.returned => call.result = <<to_int_id(call.table[call.x].ID)>>

\* C12 (amended): the function returns exactly the list holding X's ID when X
\* has a valid ID and no row before X with a valid ID scores at least as high
\* as X (no earlier row has a feature vector parallel to X's, and X's vector
\* is not all zero unless X is the first row with a valid ID).
C12_ReturnsXWhenFirstBest ==
  (/\ call.returned
   /\ to_int_id(call.table[call.x].ID) # -1
   /\ \A j \in 1..(call.x - 1) : ~ScoresAtLeastX(j))
  => call.result = <<to_int_id(call.table[call.x].ID)>>

\* X is not the first row, a row before it scores lower and a row behind it
\* scores the same, and X's ID is returned
C12_Witness ==
  /\ call.returned
  /\ call.x > 1
  /\ call.x < Len(call.table)
  /\ to_int_id(call.table[1].ID) # -1
  /\ \A j \in 1..(call.x - 1) : ~ScoresAtLeastX(j)
  /\ call.features_matrix[1][call.x + 1] = call.features_matrix[1][call.x]
  /\ to_int_id(call.table[call.x + 1].ID) # -1
  /\ call.result = <<to_int_id(call.table[call.x].ID)>>

-----------------------------------------------------------------------------
(* calculate_user_profile on every kind of input, the unusable ones included *)

\* the inputs of SpecProfile and, for the table with NumRows valid IDs: no
\* matrix, a matrix without columns, a matrix without rows; and an empty table
ProfileInputs ==
  LET regular == [i \in 1..NumRows |-> Activity(Some(RowId(i)), Some("Kultur"), <<"">>, Some(0), Some("Indoor"))]
  IN RecInputs
     \cup {<<regular, None>>,
           <<regular, Some([i \in 1..NumRows |-> <<>>])>>,
           <<regular, Some(<<>>)>>}
     \cup {<<(<<>>), Some(m)>> : m \in [1..NumRows -> {<<1, 0>>, <<1, 1>>}]}

InitProfileAny ==
  /\ default_lists = [liked_ids |-> <<>>, disliked_ids |-> <<>>]
  /\ own_lists = NoSessions
  /\ session_state = NoSessions
  /\ \E in \in ProfileInputs, liked \in LikedLists :
       /\ df = in[1]
       /\ call = [op |-> "calculate_user_profile", liked_ids |-> liked,
                  features_matrix |-> in[2], table |-> df, returned |-> FALSE,
                  result |-> None, result_reversed |-> None, result_repeated |-> None]

NextProfileAny == CalculateProfile

SpecProfileAny == InitProfileAny /\ [][NextProfileAny]_vars

\* some liked ID is the ID of a table row that lies inside the matrix
SomeLikedIdResolves ==
  \E i \in DOMAIN call.table :
    /\ i <= Len(call.features_matrix[1])
    /\ \E j \in DOMAIN call.liked_ids : call.liked_ids[j] = to_int_id(call.table[i].ID)

\* C13: calculate_user_profile returns None whenever the matrix is None or has
\* no columns, the table is empty, liked_ids is empty or no liked ID resolves
\* to a row inside the matrix; in every other case it returns a vector with
\* exactly as many entries as the matrix has columns.
C13_NoneOrFullVector ==
  call.returned =>
    IF \/ call.features_matrix = None
       \/ call.table = <<>>
       \/ call.liked_ids = <<>>
    THEN call.result = None
    ELSE IF \/ call.features_matrix[1] = <<>>
            \/ Len(call.features_matrix[1][1]) = 0
            \/ ~SomeLikedIdResolves
    THEN call.result = None
    ELSE /\ call.result # None
         /\ Len(call.result[1].num) = Len(call.features_matrix[1][1])
         /\ call.result[1].den > 0

\* a full vector came back although one of the liked IDs is in no table and
\* another is the ID of a row outside the matrix
C13_Witness ==
  /\ call.returned
  /\ call.result # None
  /\ Len(call.result[1].num) = 2
  /\ RowId(NumRows + 2) \in Range(call.liked_ids)
  /\ \E i \in DOMAIN call.table :
       /\ i > Len(call.features_matrix[1])
       /\ to_int_id(call.table[i].ID) \in Range(call.liked_ids)

-----------------------------------------------------------------------------
(* get_profile_recommendations on every kind of input, the unusable ones included *)

\* the profile is missing or present; the inputs are those of SpecProfileAny
InitRecAny ==
  /\ default_lists = [liked_ids |-> <<>>, disliked_ids |-> <<>>]
  /\ own_lists = NoSessions
  /\ session_state = NoSessions
  /\ \E n \in 0..MaxN, k \in -1..(MaxN + 1), in \in ProfileInputs,
        r \in RecRatedSets, profile \in {None, RecProfile} :
       /\ k <= n + 1
       /\ df = in[1]
       /\ call = [op |-> "get_profile_recommendations", user_profile |-> profile,
                  features_matrix |-> in[2], rated_ids |-> r, n |-> n, k |-> k,
                  table |-> df, returned |-> FALSE, profile_based_ids |-> <<>>,
                  exploration_ids |-> <<>>, result |-> <<>>]

NextRecAny == Recommend

SpecRecAny == InitRecAny /\ [][NextRecAny]_vars

\* C14: without a profile, or with a matrix that is None or has no rows or no
\* columns, get_profile_recommendations returns the empty list and draws no
\* exploration IDs, whatever n and the exploration count are and whichever
\* activities are unrated.
C14_EmptyWithoutProfileOrMatrix ==
  (/\ call.returned
   /\ \/ call.user_profile = None
      \/ call.features_matrix = None
      \/ call.features_matrix = Some(<<>>)
      \/ \A i \in DOMAIN call.features_matrix[1] : call.features_matrix[1][i] = <<>>)
  => /\ call.result = <<>>
     /\ call.exploration_ids = <<>>

\* no profile, a usable matrix, exploration slots asked for and unrated valid
\* IDs in the table: the call returned nothing
C14_Witness ==
  /\ call.returned
  /\ call.user_profile = None
  /\ call.features_matrix # None
  /\ NumMatrixCols(call.features_matrix[1]) > 0
  /\ call.k >= 1
  /\ call.n > call.k
  /\ CallValidIds \ call.rated_ids # {}
  /\ call.result = <<>>

-----------------------------------------------------------------------------
(* Dislikes and the profile *)

\* C15: calculate_user_profile does not read disliked_ids, so a dislike of an
\* activity that is not currently liked leaves the session's cached profile
\* vector as it was, and the list computed next does not hold the disliked ID.
C15_DislikeKeepsProfile ==
  [][\A s \in DOMAIN session_state :
       (/\ call'.op = "update_recommendations"
        /\ call'.session = s
        /\ call'.accepted
        /\ call'.rating = -1
        /\ call'.previous_rating # 1)
       => /\ State(s)'.user_profile = State(s).user_profile
          /\ call'.clicked_activity_id \notin Range(State(s)'.recommendations_to_show_ids)]_vars

-----------------------------------------------------------------------------
(* The reset over a table with more activities than the card list holds *)

\* one activity more than the initial suggestions
NumResetActs == initial_suggestions + 1

\* the session entries and lists of a browser that has liked the first j
\* activities in table order (after disliking the last one if d), as the
\* handler and the page run leave them after the j-th like
AfterLikes(j, d) ==
  LET table  == LoadedTable(NumResetActs)
      before == [liked_ids    |-> [i \in 1..(j - 1) |-> RowId(i)],
                 disliked_ids |-> IF d THEN <<RowId(NumResetActs)>> ELSE <<>>]
      st0    == [DEFAULT_SESSION_STATE EXCEPT
                   !.features_matrix = preprocess_features(table)]
  IN UNION {{[st |-> st, lists |-> out.lists] : st \in page_run(out.st, out.lists, table)} :
              out \in update_recommendations(st0, before, table, Some(RowId(j)), 1)}

\* the same after "Zeige passende Aktivitaeten fuer mein Profil"
WithExplicitList(a) ==
  LET table     == LoadedTable(NumResetActs)
      rated_ids == Range(a.lists.liked_ids) \cup Range(a.lists.disliked_ids)
  IN {[a EXCEPT !.st.explicit_recommendations_list = Some(run.result)] :
        run \in get_profile_recommendations(a.st.user_profile, a.st.features_matrix,
                                            table, rated_ids, explicit_suggestions, 0)}

InitReset ==
  /\ df = LoadedTable(NumResetActs)
  /\ own_lists = [s \in {1} |-> EmptyLists]
  /\ call = [op |-> "none", session |-> 0]
  /\ \E j \in 1..NumResetActs, d \in BOOLEAN :
       /\ d => j < NumResetActs
       /\ \E a \in AfterLikes(j, d) :
          \E b \in {a} \cup (IF j >= MIN_LIKES_FOR_PROFILE THEN WithExplicitList(a) ELSE {}) :
            /\ default_lists = b.lists
            /\ session_state = [s \in {1} |-> Some(b.st)]

\* the first reset of a session (resets that follow a reset are part of Spec)
NextReset ==
  \E s \in DOMAIN session_state :
    State(s).liked_ids = "default" /\ ResetPersonalisation(s)

SpecReset == InitReset /\ [][NextReset]_vars

\* the valid IDs of the loaded table
TableValidIds == {to_int_id(df[i].ID) : i \in DOMAIN df} \ {-1}

\* C16: after a reset and the page run that follows it the session's liked
\* and disliked lists are empty, the cached profile, the profile label and the
\* explicit profile list are none, and the suggestion list holds
\* min(5, number of valid IDs) different IDs of the table, whatever the
\* session had rated before.
C16_ResetClears ==
  call.op = "reset" =>
    LET st == State(call.session)
    IN /\ Lists(call.session) = EmptyLists
       /\ st.user_profile = None
       /\ st.user_profile_label = None
       /\ st.explicit_recommendations_list = None
       /\ NoRepeats(st.recommendations_to_show_ids)
       /\ Range(st.recommendations_to_show_ids) \subseteq TableValidIds
       /\ Len(st.recommendations_to_show_ids) <= initial_suggestions
       /\ Len(st.recommendations_to_show_ids) =
            Min(initial_suggestions, Cardinality(TableValidIds))

\* a reset after five likes and a dislike: five of the six activities are
\* offered, a liked and the disliked one among them
C16_Witness ==
  /\ call.op = "reset"
  /\ Len(default_lists.liked_ids) >= MIN_LIKES_FOR_PROFILE
  /\ default_lists.disliked_ids # <<>>
  /\ Cardinality(TableValidIds) > initial_suggestions
  /\ Len(State(call.session).recommendations_to_show_ids) = initial_suggestions
  /\ default_lists.liked_ids[1] \in Range(State(call.session).recommendations_to_show_ids)
  /\ default_lists.disliked_ids[1] \in Range(State(call.session).recommendations_to_show_ids)

-----------------------------------------------------------------------------
(* The rating handler called with any value as the activity ID *)

DigitChars == <<"0", "1", "2", "3", "4", "5", "6", "7", "8", "9">>

\* int() on the characters of a string of digits: None when a character is
\* not a digit or the string is empty
RECURSIVE digits_value(_, _)
digits_value(chars, acc) ==
  IF chars = <<>> THEN Some(acc)
  ELSE IF \E v \in DOMAIN DigitChars : DigitChars[v] = Head(chars)
       THEN digits_value(Tail(chars),
                         10 * acc + (CHOOSE v \in DOMAIN DigitChars : DigitChars[v] = Head(chars)) - 1)
       ELSE None

\* the handler's test for None and its int(clicked_activity_id): the whole
\* number, or None where the handler returns on None, ValueError or TypeError
int_of_clicked_id(raw) ==
  IF raw.kind = "int" THEN Some(raw.value)
  ELSE IF raw.kind = "str"
  THEN IF raw.chars = <<>> THEN None
       ELSE IF Head(raw.chars) = "-"
       THEN LET v == IF Tail(raw.chars) = <<>> THEN None ELSE digits_value(Tail(raw.chars), 0)
            IN IF v = None THEN None ELSE Some(-v[1])
       ELSE digits_value(raw.chars, 0)
  ELSE None

\* values a caller can pass as the ID: None, NaN, a list, text that is no
\* number, the sentinel as number and as text, and IDs of the table as number
\* and as text
RawIds ==
  {[kind |-> "None"], [kind |-> "nan"], [kind |-> "list"],
   [kind |-> "str", chars |-> <<"a", "1">>], [kind |-> "str", chars |-> <<>>],
   [kind |-> "int", value |-> -1], [kind |-> "str", chars |-> <<"-", "1">>],
   [kind |-> "int", value |-> RowId(1)], [kind |-> "str", chars |-> <<"1", "2">>]}

\* the values among them that are None, not convertible or the sentinel
MalformedIds ==
  {[kind |-> "None"], [kind |-> "nan"], [kind |-> "list"],
   [kind |-> "str", chars |-> <<"a", "1">>], [kind |-> "str", chars |-> <<>>],
   [kind |-> "int", value |-> -1], [kind |-> "str", chars |-> <<"-", "1">>]}

\* update_recommendations called with the value raw, then the script reruns
CallHandler(s, raw, rating) ==
  /\ Started(s)
  /\ \E out \in update_recommendations(State(s), Lists(s), df, int_of_clicked_id(raw), rating) :
     \E st \in page_run(out.st, out.lists, df) :
       /\ session_state' = [session_state EXCEPT ![s] = Some(st)]
       /\ StoreLists(s, out.lists)
       /\ call' = [op |-> "update_recommendations_any", session |-> s,
                   raw |-> raw, rating |-> rating,
                   matrix_computed |-> computes_matrix(out.st)]
  /\ UNCHANGED df

NextHandler ==
  \E s \in DOMAIN session_state :
    \/ StartSession(s)
    \/ RateCard(s, 1)
    \/ RateCard(s, -1)
    \/ \E raw \in RawIds, rating \in {1, -1} : CallHandler(s, raw, rating)

SpecHandler == Init /\ [][NextHandler]_vars

-----------------------------------------------------------------------------
(* The exploration policy of get_profile_recommendations (SpecRec) *)

-----------------------------------------------------------------------------
(* The stored feature matrix *)

\* one browser that has liked some activities likes more, asks for the
\* explicit list, hides it and resets once
NextMatrix ==
  \E s \in DOMAIN session_state :
    \/ State(s).liked_ids = "default" /\ RateCard(s, 1)
    \/ State(s).liked_ids = "default" /\ ShowProfileRecommendations(s)
    \/ State(s).liked_ids = "default" /\ HideProfileList(s)
    \/ State(s).liked_ids = "default" /\ ResetPersonalisation(s)

SpecMatrix == InitReset /\ [][NextMatrix]_vars

\* C19: once a session holds a feature matrix, every rating, reset, request of
\* the explicit list, hiding of it and page rerun of any session leaves the
\* stored matrix what it was, and the page script of that session does not
\* compute a matrix again.
C19_MatrixStoredOnce ==
  [][\A s \in DOMAIN session_state :
       (Started(s) /\ State(s).features_matrix # None)
       => /\ State(s)'.features_matrix = State(s).features_matrix
          /\ (call' # call /\ call'.session = s) => ~call'.matrix_computed]_vars

\* a reset in a session that holds a matrix and an explicit list
C19_Witness ==
  /\ call.op = "reset"
  /\ ~call.matrix_computed
  /\ State(call.session).features_matrix # None
  /\ NumMatrixRows(State(call.session).features_matrix[1]) = Len(df)
  /\ Len(default_lists.liked_ids) >= MIN_LIKES_FOR_PROFILE

-----------------------------------------------------------------------------
(* The engine and its inputs *)

-----------------------------------------------------------------------------
(* The profile label in sessions with and without a feature matrix *)

\* a table none of whose columns can be encoded: no description, no target
\* group, an infinite price in every row
UnencodableTable(rows) ==
  [i \in 1..rows |->
     Activity(Some(RowId(i)), Some(ArtCycle[((i - 1) % 3) + 1]), <<"">>, Infinite,
              Some("Indoor"))]

InitLabel ==
  /\ df \in {LoadedTable(NumActs), UnencodableTable(NumActs)}
  /\ default_lists = EmptyLists
  /\ own_lists = [s \in 1..NumSessions |-> EmptyLists]
  /\ session_state = [s \in 1..NumSessions |-> None]
  /\ call = [op |-> "none", session |-> 0]

NextLabel ==
  \E s \in DOMAIN session_state :
    \/ StartSession(s)
    \/ RateCard(s, 1)
    \/ RateCard(s, -1)

SpecLabel == InitLabel /\ [][NextLabel]_vars

-----------------------------------------------------------------------------
(* generate_profile_label on its own *)

\* categories and like counts of the series handed to generate_profile_label
MaxArts == 3
MaxCount == 3
LabelArts == {"Sport", "Action", "Natur", "Wandern", "Kultur"}

\* the series value_counts can return: no category twice, every count positive
ScoreSeries(max_arts) ==
  {s \in UNION {[1..len -> [art : LabelArts, count : 1..MaxCount]] : len \in 0..max_arts} :
     \A i, j \in DOMAIN s : i # j => s[i].art # s[j].art}

InitLabelFn ==
  /\ df = <<>>
  /\ default_lists = EmptyLists
  /\ own_lists = <<>>
  /\ session_state = <<>>
  /\ call \in {[op |-> "input", preference_scores |-> p] :
                 p \in {None} \cup {Some(s) : s \in ScoreSeries(MaxArts)}}

GenerateLabel ==
  /\ call.op = "input"
  /\ call' = [op |-> "generate_profile_label",
              preference_scores |-> call.preference_scores,
              result |-> generate_profile_label(call.preference_scores)]
  /\ UNCHANGED <<df, default_lists, own_lists, session_state>>

NextLabelFn == GenerateLabel

SpecLabelFn == InitLabelFn /\ [][NextLabelFn]_vars

\* the label the two entries (art1, score1), (art2, score2) give
label_of_pair(e1, e2) ==
  IF {e1.art, e2.art} = {"Sport", "Action"} THEN <<"Sport & Action Typ">>
  ELSE IF {e1.art, e2.art} = {"Natur", "Wandern"} THEN <<"Naturfreund">>
  ELSE IF {e1.art, e2.art} = {"Genuss", "Shopping"} THEN <<"Genuss & Shopping Typ">>
  ELSE IF 2 * e1.count > 3 * e2.count THEN <<"FanInterest", e1.art, e2.art>>
  ELSE <<"Typ", e1.art, e2.art>>

-----------------------------------------------------------------------------
(* The four aggregators on their own *)

\* rows of the tables handed to the aggregators
MaxAggRows == 3
\* largest top_n handed to calculate_top_target_groups
MaxTopN == 3

AggArts == {None, Some("Sport"), Some("Kultur")}
AggZielgruppen == {None, <<"Familie">>, <<" Kinder", "Familie ">>, <<" ", "">>,
                   <<"Studenten", " Kinder">>}
\* no price (NaN), free, two prices above zero
AggPreise == {None, Some(0), Some(2), Some(5)}

\* ID columns: different IDs, one ID twice, one ID missing
AggIdColumns(len) ==
  LET valid == [i \in 1..len |-> Some(RowId(i))]
  IN {valid} \cup (IF len < 2 THEN {}
                   ELSE {[valid EXCEPT ![len] = Some(RowId(1))],
                         [valid EXCEPT ![1] = None]})

\* a table without one of its columns
drop_column(table, col) ==
  [i \in DOMAIN table |-> [f \in DOMAIN table[i] \ {col} |-> table[i][f]]]

\* the tables over one ID column in which one of the columns Art, Zielgruppe
\* and Preis_Ca takes every combination of values
AggTablesOver(ids) ==
  LET len == Len(ids)
  IN {[i \in 1..len |-> Activity(ids[i], arts[i], <<"Familie">>, Some(0), Some("Indoor"))] :
         arts \in [1..len -> AggArts]}
     \cup {[i \in 1..len |-> Activity(ids[i], Some("Kultur"), zgs[i], Some(0), Some("Indoor"))] :
         zgs \in [1..len -> AggZielgruppen]}
     \cup {[i \in 1..len |-> Activity(ids[i], Some("Kultur"), <<"Familie">>, ps[i], Some("Indoor"))] :
         ps \in [1..len -> AggPreise]}

\* tables of up to max_rows rows, and the tables that miss a column
AggTables(max_rows) ==
  UNION {UNION {AggTablesOver(ids) : ids \in AggIdColumns(len)} : len \in 0..max_rows}
  \cup {drop_column(LoadedTable(max_rows), col) :
          col \in {"ID", "Art", "Zielgruppe", "Preis_Ca"}}

\* liked lists: IDs of the table and one ID of no row
AggLikedLists ==
  {l \in UNION {[1..len -> {RowId(i) : i \in 1..(MaxAggRows + 1)}] : len \in 0..MaxAggRows} :
     \A i, j \in DOMAIN l : i < j => l[i] < l[j]}

InitAgg ==
  \/ InitLabelFn
  \/ /\ df \in AggTables(MaxAggRows)
     /\ default_lists = EmptyLists
     /\ own_lists = <<>>
     /\ session_state = <<>>
     /\ call \in {[op |-> "liked", liked_ids |-> l] : l \in AggLikedLists}

PreferenceScores ==
  /\ call.op = "liked"
  /\ call' = [op |-> "calculate_preference_scores", liked_ids |-> call.liked_ids,
              result |-> calculate_preference_scores(call.liked_ids, df)]
  /\ UNCHANGED <<df, default_lists, own_lists, session_state>>

\* generate_profile_label(calculate_preference_scores(...)), as the page calls it
LabelOfScores ==
  /\ call.op = "calculate_preference_scores"
  /\ call' = [op |-> "generate_profile_label", preference_scores |-> call.result,
              result |-> generate_profile_label(call.result)]
  /\ UNCHANGED <<df, default_lists, own_lists, session_state>>

TopTargetGroups ==
  /\ call.op = "liked"
  /\ \E top_n \in 0..MaxTopN :
       call' = [op |-> "calculate_top_target_groups", liked_ids |-> call.liked_ids,
                top_n |-> top_n,
                result |-> calculate_top_target_groups(call.liked_ids, df, top_n)]
  /\ UNCHANGED <<df, default_lists, own_lists, session_state>>

\* both calls of get_liked_prices on the same arguments
LikedPrices ==
  /\ call.op = "liked"
  /\ call' = [op |-> "get_liked_prices", liked_ids |-> call.liked_ids,
              with_free    |-> get_liked_prices(call.liked_ids, df, TRUE),
              without_free |-> get_liked_prices(call.liked_ids, df, FALSE)]
  /\ UNCHANGED <<df, default_lists, own_lists, session_state>>

NextAgg ==
  \/ GenerateLabel
  \/ PreferenceScores
  \/ LabelOfScores
  \/ TopTargetGroups
  \/ LikedPrices

SpecAgg == InitAgg /\ [][NextAgg]_vars

\* rows of the table whose ID is in the liked list
RowsLiked(liked_ids, table) ==
  {i \in DOMAIN table : "ID" \in DOMAIN table[i] /\ table[i].ID # None
                        /\ \E k \in DOMAIN liked_ids : liked_ids[k] = table[i].ID[1]}

\* C23: calculate_preference_scores returns one entry for each category that
\* occurs among the liked activities found in the table (a missing category
\* under "Unbekannt"), holding the number of liked activities of that
\* category, in descending order of count; no entry has count 0 and the
\* counts sum to the number of table rows whose ID is liked.
C23_CountsPerCategory ==
  (call.op = "calculate_preference_scores" /\ call.result # None)
  => LET r     == call.result[1]
         liked == RowsLiked(call.liked_ids, df)
         art(i) == IF df[i].Art = None THEN "Unbekannt" ELSE df[i].Art[1]
     IN /\ \A i, j \in DOMAIN r : i # j => r[i].art # r[j].art
        /\ {r[i].art : i \in DOMAIN r} = {art(i) : i \in liked}
        /\ \A k \in DOMAIN r :
             /\ r[k].count = Cardinality({i \in liked : art(i) = r[k].art})
             /\ r[k].count > 0
        /\ \A i, j \in DOMAIN r : i < j => r[i].count >= r[j].count
        /\ SumOver(DOMAIN r, [k \in DOMAIN r |-> r[k].count]) = Cardinality(liked)

\* three liked rows, the first and the third under one ID, one row without a
\* category: "Unbekannt" is counted once and the counts sum to three
C23_Witness ==
  /\ call.op = "calculate_preference_scores"
  /\ call.result # None
  /\ Len(df) = 3
  /\ df[1].ID = df[3].ID
  /\ Cardinality(RowsLiked(call.liked_ids, df)) = 3
  /\ Len(call.result[1]) = 2
  /\ call.result[1][1].count = 2
  /\ call.result[1][2] = [art |-> "Unbekannt", count |-> 1]

\* the list an aggregator returned, nothing for None
Returned(result) == IF result = None THEN <<>> ELSE result[1]

spellings(tag) ==
  CASE tag = "Familie" -> {"Familie", "Familie ", " Familie "}
    [] tag = "Kinder"  -> {"Kinder", " Kinder"}
    [] OTHER           -> {tag}

\* occurrences of the tag in the target groups of the liked rows
Occurrences(tag, liked_ids, table) ==
  LET liked == {i \in RowsLiked(liked_ids, table) :
                  "Zielgruppe" \in DOMAIN table[i] /\ table[i].Zielgruppe # None}
  IN SumOver(liked, [i \in liked |->
                       Cardinality({k \in DOMAIN table[i].Zielgruppe :
                                      table[i].Zielgruppe[k] \in spellings(tag)})])

\* C25: calculate_top_target_groups returns the tag frequencies over the
\* comma-separated target groups of all liked activities (tags trimmed, empty
\* tags dropped, one count per occurrence), in descending order of count and
\* cut to at most top_n entries; every tag left out has a count not larger
\* than any tag returned.
C25_TopTagFrequencies ==
  (call.op = "calculate_top_target_groups" /\ call.result # None)
  => LET r       == call.result[1]
         occ(t)  == Occurrences(t, call.liked_ids, df)
         present == {t \in Range(ZielgruppeOrder) : occ(t) > 0}
         shown   == {r[k].tag : k \in DOMAIN r}
     IN /\ \A i, j \in DOMAIN r : i # j => r[i].tag # r[j].tag
        /\ shown \subseteq present
        /\ \A k \in DOMAIN r : r[k].count = occ(r[k].tag)
        /\ \A i, j \in DOMAIN r : i < j => r[i].count >= r[j].count
        /\ Len(r) = Min(call.top_n, Cardinality(present))
        /\ \A t \in present \ shown : \A k \in DOMAIN r : occ(t) <= r[k].count

\* "Familie" occurs twice and " Kinder" once among the liked activities and
\* top_n is 1: only Familie is returned
C25_Witness ==
  /\ call.op = "calculate_top_target_groups"
  /\ call.top_n = 1
  /\ call.result = Some(<<[tag |-> "Familie", count |-> 2]>>)
  /\ Occurrences("Kinder", call.liked_ids, df) = 1

\* liked is empty, the table is empty, the ID column or the named column is
\* missing, or no liked ID is in the table
NoData(liked_ids, table, col) ==
  \/ liked_ids = <<>>
  \/ table = <<>>
  \/ "ID" \notin DOMAIN table[1]
  \/ col \notin DOMAIN table[1]
  \/ RowsLiked(liked_ids, table) = {}

\* C26: each aggregator returns None, never an empty or zero-valued result,
\* when liked is empty, the table is empty, a required column is missing or
\* no liked ID is in the table; generate_profile_label of None or of empty
\* scores is None; calculate_top_target_groups returns None when the liked
\* activities carry no tag, and get_liked_prices with include_free=False
\* returns None when every liked activity is free.
C26_NoDataIsNone ==
  /\ (call.op = "calculate_preference_scores" /\ NoData(call.liked_ids, df, "Art"))
       => call.result = None
  /\ (call.op = "generate_profile_label" /\ call.preference_scores \in {None, Some(<<>>)})
       => call.result = None
  /\ (call.op = "calculate_top_target_groups"
        /\ (\/ NoData(call.liked_ids, df, "Zielgruppe")
            \/ \A t \in Range(ZielgruppeOrder) : Occurrences(t, call.liked_ids, df) = 0))
       => call.result = None
  /\ (call.op = "get_liked_prices" /\ NoData(call.liked_ids, df, "Preis_Ca"))
       => (call.with_free = None /\ call.without_free = None)
  /\ (call.op = "get_liked_prices" /\ ~NoData(call.liked_ids, df, "Preis_Ca")
        /\ \A i \in RowsLiked(call.liked_ids, df) : df[i].Preis_Ca = Some(0))
       => call.without_free = None

\* two liked activities found in the table, both free: the call without the
\* free ones returns None, the call with them the two prices
C26_Witness ==
  /\ call.op = "get_liked_prices"
  /\ ~NoData(call.liked_ids, df, "Preis_Ca")
  /\ Cardinality(RowsLiked(call.liked_ids, df)) = 2
  /\ \A i \in RowsLiked(call.liked_ids, df) : df[i].Preis_Ca = Some(0)
  /\ call.without_free = None
  /\ call.with_free = Some(<<Some(0), Some(0)>>)

-----------------------------------------------------------------------------
(* preprocess_features on its own *)

\* rows of the tables handed to preprocess_features
MaxFeatureRows == 2

FeatureBeschreibungen == {<<>>, <<"a">>, <<"See">>, <<"Museum", "a", "see">>}
FeatureZielgruppen == {<<"">>, <<"Familie">>, <<" Kinder", "Familie ">>}
FeaturePreise == {None, Some(0), Some(2), Infinite}
FeatureArts == {None, Some("Kultur"), Some("Sport")}

FeatureTableRows ==
  {[Activity(Some(0), art, zg, preis, Some("Indoor")) EXCEPT !.Beschreibung = text] :
     art \in FeatureArts, zg \in FeatureZielgruppen, preis \in FeaturePreise,
     text \in FeatureBeschreibungen}

\* every table of up to MaxFeatureRows rows, the i-th row under the ID RowId(i)
InitFeatures ==
  /\ \E len \in 0..MaxFeatureRows : \E rows \in [1..len -> FeatureTableRows] :
       df = [i \in 1..len |-> [rows[i] EXCEPT !.ID = Some(RowId(i))]]
  /\ default_lists = EmptyLists
  /\ own_lists = <<>>
  /\ session_state = <<>>
  /\ call = [op |-> "table"]

\* the call, with the three blocks it tried to build (None for a block that
\* was skipped)
Preprocess ==
  /\ call.op = "table"
  /\ call' = [op |-> "preprocess_features",
              blocks |-> <<text_block(df), zielgruppe_block(df), ct_block(df)>>,
              result |-> preprocess_features(df)]
  /\ UNCHANGED <<df, default_lists, own_lists, session_state>>

NextFeatures == Preprocess

SpecFeatures == InitFeatures /\ [][NextFeatures]_vars

\* the lists of a list of lists one after the other
RECURSIVE Flatten(_)
Flatten(lists) == IF lists = <<>> THEN <<>> ELSE Head(lists) \o Flatten(Tail(lists))

C28_SkipsFailedBlocks ==
  (call.op = "preprocess_features")
  => LET built == SelectSeq(call.blocks, LAMBDA b : b # None)
     IN /\ call.result = None <=> (df = <<>> \/ built = <<>>)
        /\ (df # <<>> /\ \A i \in DOMAIN df : df[i].Beschreibung = <<>>)
             => call.blocks[1] = None
        /\ (df # <<>> /\ \A i \in DOMAIN df : \A k \in DOMAIN df[i].Zielgruppe :
                                                df[i].Zielgruppe[k] \in {"", " "})
             => call.blocks[2] = None
        /\ call.result # None
             => \A i \in DOMAIN df :
                  call.result[1][i] = Flatten([b \in DOMAIN built |-> built[b][1][i]])

\* no activity has a description and one has an infinite price: the text
\* block and the price/category block are skipped and the matrix is the
\* target-group block
C28_Witness ==
  /\ call.op = "preprocess_features"
  /\ Len(df) = 2
  /\ \A i \in DOMAIN df : df[i].Beschreibung = <<>>
  /\ df[2].Preis_Ca = Infinite
  /\ call.blocks[1] = None
  /\ call.blocks[2] # None
  /\ call.blocks[3] = None
  /\ call.result = call.blocks[2]

-----------------------------------------------------------------------------
(* The length of the returned list (SpecRec) *)

\* C29: with a profile, a table with unique IDs and a matrix with one row per
\* table row, for every n and exploration count k with 0 <= k <= n the
\* returned list has exactly min(n, U) entries, U being the number of valid
\* unrated IDs of the table; the final truncation removes no entry.
C29_ReturnsMinOfNAndUnrated ==
  (/\ call.returned
   /\ call.user_profile # None
   /\ UniqueIds(call.table)
   /\ NumMatrixRows(call.features_matrix[1]) = Len(call.table)
   /\ 0 <= call.k
   /\ call.k <= call.n)
  => /\ Len(call.result) = Min(call.n, Cardinality(CallValidIds \ call.rated_ids))
     /\ Len(call.result) = Len(call.profile_based_ids) + Len(call.exploration_ids)

\* three slots, one of them for exploration, and two unrated IDs left in a
\* table of which one ID is rated: the ranker picks both, exploration finds
\* no candidate and the list has two entries
C29_Witness ==
  /\ call.returned
  /\ UniqueIds(call.table)
  /\ NumMatrixRows(call.features_matrix[1]) = Len(call.table)
  /\ call.n = 3
  /\ call.k = 1
  /\ Cardinality(CallValidIds \ call.rated_ids) = 2
  /\ call.rated_ids # {}
  /\ Len(call.profile_based_ids) = 2
  /\ call.exploration_ids = <<>>
  /\ Len(call.result) = 2

-----------------------------------------------------------------------------
(* The suggestion card of one session *)

\* activities in the table of the card's session
NumCardActs == 3

\* one browser; the table can be encoded or not, so the session holds a
\* feature matrix or none
InitCard ==
  /\ df \in {LoadedTable(NumCardActs), UnencodableTable(NumCardActs)}
  /\ default_lists = EmptyLists
  /\ own_lists = [s \in {1} |-> EmptyLists]
  /\ session_state = [s \in {1} |-> None]
  /\ call = [op |-> "none", session |-> 0]

NextCard ==
  \E s \in DOMAIN session_state :
    \/ StartSession(s)
    \/ RateCard(s, 1)
    \/ RateCard(s, -1)
    \/ ResetPersonalisation(s)

SpecCard == InitCard /\ [][NextCard]_vars

\* the IDs session s has liked or disliked
RatedIds(s) == Range(Lists(s).liked_ids) \cup Range(Lists(s).disliked_ids)

\* at the end of a page run: no suggestion exactly when every valid ID is
\* rated, else the first suggestion is unrated
CardShowsUnrated ==
  \A s \in DOMAIN session_state :
    Started(s)
    => LET recs == State(s).recommendations_to_show_ids
       IN /\ recs = <<>> <=> TableValidIds \subseteq RatedIds(s)
          /\ recs # <<>> => recs[1] \in TableValidIds \ RatedIds(s)
          /\ Len(Lists(s).liked_ids) + Len(Lists(s).disliked_ids)
               <= Cardinality(TableValidIds)

\* a rating made through the card adds one new ID to liked or disliked and
\* moves none between them
CardRatingAddsNewId ==
  \A s \in DOMAIN session_state :
    (Started(s) /\ call'.op = "update_recommendations" /\ call'.session = s)
    => /\ Range(Lists(s).liked_ids) \subseteq Range(Lists(s)'.liked_ids)
       /\ Range(Lists(s).disliked_ids) \subseteq Range(Lists(s)'.disliked_ids)
       /\ Len(Lists(s)'.liked_ids) + Len(Lists(s)'.disliked_ids)
            = Len(Lists(s).liked_ids) + Len(Lists(s).disliked_ids) + 1
       /\ call'.clicked_activity_id \notin RatedIds(s)

\* C30: in a single session over a non-empty table, at the end of every page
\* run the suggestion list is empty if and only if every valid ID has been
\* liked or disliked, and otherwise its first entry is unrated; every rating
\* made through the card adds a new ID to liked or disliked without moving
\* one, so the lists never hold more ratings than there are activities and
\* with that many ratings no suggestion is left.
C30_CardRatesEachActivityOnce ==
  [](CardShowsUnrated) /\ [][CardRatingAddsNewId]_vars

\* the last unrated activity has just been rated through the card, after a
\* like and a dislike: every activity is rated and no suggestion is left
C30_Witness ==
  /\ Started(1)
  /\ call.op = "update_recommendations"
  /\ call.accepted
  /\ Lists(1).liked_ids # <<>>
  /\ Lists(1).disliked_ids # <<>>
  /\ Len(Lists(1).liked_ids) + Len(Lists(1).disliked_ids) = NumCardActs
  /\ State(1).recommendations_to_show_ids = <<>>

====
